---- MODULE Spec2Model ----
(***************************************************************************)
(* A model of the EaselJS display list (easel.Container and                *)
(* easel.DisplayObject): the child-list mutators, the recursive draw, the  *)
(* cache blit and the point queries.                                       *)
(*                                                                         *)
(* JavaScript values that the code mixes (numbers, undefined, NaN, object  *)
(* references) are tagged records [t, v]; arrays are sequences, and array  *)
(* indices are the 0-based indices of the code (element i of the array is  *)
(* element i+1 of the sequence).                                           *)
(***************************************************************************)
EXTENDS Integers, Sequences, FiniteSets, TLC

\* ------------------------------------------------------------------ bounds
\* Number of leaf display objects (Bitmaps) besides the two Containers.
NumLeaves == 2

\* ------------------------------------------------------------------ nodes
\* null, as a node reference (nodes are numbered from 1).
Null == 0
Containers == {1, 2}
Leaves == (Cardinality(Containers) + 1)..(Cardinality(Containers) + NumLeaves)
Nodes == Containers \cup Leaves

\* ------------------------------------------------------- JavaScript values
Num(i) == [t |-> "num", v |-> i]
Obj(n) == [t |-> "obj", v |-> n]
Undefined == [t |-> "undefined", v |-> 0]
NaN == [t |-> "nan", v |-> 0]
NullVal == [t |-> "null", v |-> 0]
ArrayVal(s) == [t |-> "array", v |-> s]
Bool(b) == [t |-> "bool", v |-> b]
Str(s) == [t |-> "str", v |-> s]
Throw(e) == [t |-> "throw", v |-> e]

\* A value in a condition: undefined, null, false and "" are falsy.
Truthy(v) == v \notin {Undefined, NullVal, Bool(FALSE), Str("")}

\* arguments[k]: a property that does not exist reads as undefined.
ArgAt(args, k) == IF k >= 0 /\ k < Len(args) THEN args[k + 1] ELSE Undefined

\* index + i for a number i: undefined + i and NaN + i are NaN.
JSAdd(a, i) == IF a.t = "num" THEN Num(a.v + i) ELSE NaN

\* ToIntegerOrInfinity, as Array.prototype.splice applies it to its start.
ToInteger(a) == IF a.t = "num" THEN a.v ELSE 0

Min(a, b) == IF a < b THEN a ELSE b
Max(a, b) == IF a > b THEN a ELSE b

\* Array.prototype.indexOf: the first 0-based index of x, or -1.
IndexOf(s, x) ==
  IF \E i \in 1..Len(s) : s[i] = x
  THEN (CHOOSE i \in 1..Len(s) : s[i] = x /\ \A j \in 1..(i - 1) : s[j] # x) - 1
  ELSE -1

\* Array.prototype.splice(start, deleteCount, ...items), the array afterwards.
Splice(s, start, deleteCount, items) ==
  LET len == Len(s)
      rel == ToInteger(start)
      actualStart == IF rel < 0 THEN Max(len + rel, 0) ELSE Min(rel, len)
      del == Min(Max(deleteCount, 0), len - actualStart)
  IN SubSeq(s, 1, actualStart) \o items \o SubSeq(s, actualStart + del + 1, len)

\* Array.prototype.sort with the comparator function(a, b) { return b-a; }.
RECURSIVE InsertDesc(_, _)
InsertDesc(s, x) ==
  IF s = <<>> THEN <<x>>
  ELSE IF x > Head(s) THEN <<x>> \o s
  ELSE <<Head(s)>> \o InsertDesc(Tail(s), x)

RECURSIVE SortDesc(_)
SortDesc(s) == IF s = <<>> THEN <<>> ELSE InsertDesc(SortDesc(Tail(s)), Head(s))

\* The indices in ascending order (what a comparator a-b would give).
sortIndices_ascending(s) ==
  LET d == SortDesc(s) IN [i \in 1..Len(d) |-> d[Len(d) + 1 - i]]

\* removeChildAt, multi form: a.sort(function(a, b) { return b-a; })
sortIndices(s) == SortDesc(s)

\* ------------------------------------------------------------ the display list
VARIABLES
  children,   \* children[g]: the children array of Container g
  parent,     \* parent[n]: the parent field of node n, or Null
  last        \* the call that is returning to its caller: its name, receiver,
              \* arguments and result, and the display list before it; Idle
              \* between calls

VARIABLES
  obj,        \* obj[n]: the other fields of display object n
  snapToPixelEnabled,  \* easel.Stage._snapToPixelEnabled
  suppressCrossDomainErrors,  \* easel.DisplayObject.suppressCrossDomainErrors
  hitTestCanvas,       \* easel.DisplayObject._hitTestCanvas and its context
  drawing     \* the draw(ctx, ignoreCache, _mtx) call in progress, or NotDrawing

VARIABLES
  m2d,        \* a Matrix2D M the script made, its clone K that the script
              \* works on, K before the last call, and the calls made on K
  seq,        \* a BitmapSequence, with its fields before the last call
  ticker,     \* the static fields of easel.Ticker, with the last call on it
  gfx,        \* a Graphics, with the calls recorded on it and its last replay
  touch       \* the touch state of a stage, with the last touch event on it

\* The display list as a value: what the mutators read and write.
Tree == [children |-> children, parent |-> parent]

Result(st, ret) == [st |-> st, ret |-> ret]

\* removeChildAt(index), one index, without clearing child.parent.
removeChildAt1_keepsParent(st, g, index) ==
  IF index < 0 \/ index > Len(st.children[g]) - 1 THEN Result(st, FALSE)
  ELSE Result([st EXCEPT !.children[g] = Splice(@, Num(index), 1, <<>>)], TRUE)

\* removeChildAt(index), one index, with the range test off by one: the index
\* children.length passes it, children[index] is undefined and splice removes
\* nothing.
removeChildAt1_offByOne(st, g, index) ==
  IF index < 0 \/ index > Len(st.children[g]) THEN Result(st, FALSE)
  ELSE IF index = Len(st.children[g]) THEN Result(st, TRUE)
  ELSE Result([children |-> [st.children EXCEPT ![g] = Splice(@, Num(index), 1, <<>>)],
               parent |-> [st.parent EXCEPT ![st.children[g][index + 1]] = Null]], TRUE)

\* removeChildAt(index), one index (Container.js 209-213).
removeChildAt1(st, g, index) ==
  IF index < 0 \/ index > Len(st.children[g]) - 1 THEN Result(st, FALSE)
  ELSE LET child == st.children[g][index + 1]
       IN Result([children |-> [st.children EXCEPT ![g] = Splice(@, Num(index), 1, <<>>)],
                  parent |-> [st.parent EXCEPT ![child] = Null]], TRUE)

\* good = good && this.removeChildAt(a[i]) over a: once good is false the
\* remaining calls are not made.
RECURSIVE removeEachAt(_, _, _, _)
removeEachAt(st, g, a, good) ==
  IF a = <<>> THEN Result(st, good)
  ELSE IF ~good THEN removeEachAt(st, g, Tail(a), FALSE)
  ELSE LET r == removeChildAt1(st, g, Head(a))
       IN removeEachAt(r.st, g, Tail(a), r.ret)

\* removeChildAt(i1, ..., ik), k > 1 (Container.js 201-208).
removeChildAtMulti(st, g, indices) == removeEachAt(st, g, sortIndices(indices), TRUE)

\* removeChild(child), one child (Container.js 189).
removeChild1(st, g, child) == removeChildAt1(st, g, IndexOf(st.children[g], child))

\* good = good && this.removeChild(arguments[i]).
RECURSIVE removeEach(_, _, _, _)
removeEach(st, g, cs, good) ==
  IF cs = <<>> THEN Result(st, good)
  ELSE IF ~good THEN removeEach(st, g, Tail(cs), FALSE)
  ELSE LET r == removeChild1(st, g, Head(cs))
       IN removeEach(r.st, g, Tail(cs), r.ret)

\* removeChild(child1, ..., childk), k > 1 (Container.js 184-188).
removeChildMulti(st, g, cs) == removeEach(st, g, cs, TRUE)

\* if (child.parent) { child.parent.removeChild(child); }
detach(st, child) ==
  IF st.parent[child] # Null THEN removeChild1(st, st.parent[child], child).st ELSE st

\* addChild(child), one child, without detaching it from its parent first.
addChild1_noDetach(st, g, child) ==
  Result([children |-> [st.children EXCEPT ![g] = Append(@, child)],
          parent |-> [st.parent EXCEPT ![child] = g]], Obj(child))

\* addChild(child), one child (Container.js 145-148).
addChild1(st, g, child) ==
  LET s1 == detach(st, child)
  IN Result([children |-> [s1.children EXCEPT ![g] = Append(@, child)],
             parent |-> [s1.parent EXCEPT ![child] = g]], Obj(child))

RECURSIVE addEach(_, _, _)
addEach(st, g, cs) ==
  IF cs = <<>> THEN st ELSE addEach(addChild1(st, g, Head(cs)).st, g, Tail(cs))

\* addChild(child1, ..., childk), k > 1 (Container.js 141-144).
addChildMulti(st, g, cs) == Result(addEach(st, g, cs), Obj(cs[Len(cs)]))

\* addChildAt(child, index), one child (Container.js 169-172); index is a
\* JavaScript value, as the multi form passes what index+i evaluates to.
addChildAt1(st, g, child, index) ==
  LET s1 == detach(st, child)
  IN Result([children |-> [s1.children EXCEPT ![g] = Splice(@, index, 0, <<child>>)],
             parent |-> [s1.parent EXCEPT ![child] = g]], Obj(child))

\* for (; i<l-1; i++) { this.addChildAt(arguments[i], index+i); }
RECURSIVE addEachAt(_, _, _, _, _)
addEachAt(st, g, args, index, i) ==
  IF i >= Len(args) - 1 THEN st
  ELSE addEachAt(addChildAt1(st, g, ArgAt(args, i).v, JSAdd(index, i)).st, g, args, index, i + 1)

\* addChildAt(child1, ..., childk, index), k > 1 (Container.js 163-168):
\* var i = 0; index = arguments[i-1]; then the loop; returns arguments[l-2].
addChildAtMulti(st, g, args) ==
  LET i == 0
      index == ArgAt(args, i - 1)
  IN Result(addEachAt(st, g, args, index, i), ArgAt(args, Len(args) - 2))

\* removeAllChildren (Container.js 219-221).
RECURSIVE removeAllChildren(_, _)
removeAllChildren(st, g) ==
  IF Len(st.children[g]) = 0 THEN st
  ELSE removeAllChildren(removeChildAt1(st, g, 0).st, g)

\* Container.prototype.contains, starting at child.parent.
RECURSIVE contains_properDescendant(_, _, _, _)
contains_properDescendant(st, g, child, seen) ==
  IF child = Null THEN Bool(FALSE)
  ELSE IF st.parent[child] = g THEN Bool(TRUE)
  ELSE IF child \in seen THEN [t |-> "diverges", v |-> 0]
  ELSE contains_properDescendant(st, g, st.parent[child], seen \cup {child})

\* Container.prototype.contains(child), child a node or null: the value
\* returned, or "diverges" when the loop comes back to a node it has seen
\* (seen, empty at the call), which it then does forever.
RECURSIVE contains(_, _, _, _)
contains(st, g, child, seen) ==
  IF child = Null THEN Bool(FALSE)
  ELSE IF child = g THEN Bool(TRUE)
  ELSE IF child \in seen THEN [t |-> "diverges", v |-> 0]
  ELSE contains(st, g, st.parent[child], seen \cup {child})

\* ---------------------------------------------------------------- Matrix2D
\* Coordinates (x, y, regX, regY, tx, ty, image sizes) are whole numbers of
\* 1/SubPixel of a pixel, so that positions between pixels exist; scale
\* factors and the matrix coefficients a, b, c, d are plain integers.
\* Rotations are multiples of 360 and skews are 0: the branches of the code
\* that call Math.cos and Math.sin are not modelled.
SubPixel == 4

\* null, as the value of a shadow or compositeOperation field.
NullProp == "null"

RECURSIVE GCD(_, _)
GCD(a, b) == IF b = 0 THEN a ELSE GCD(b, a % b)

\* The number n/d (an alpha), in lowest terms.
Frac(n, d) ==
  IF n = 0 THEN [n |-> 0, d |-> 1] ELSE [n |-> n \div GCD(n, d), d |-> d \div GCD(n, d)]

FracMul(p, q) == Frac(p.n * q.n, p.d * q.d)

\* Matrix2D.prototype.reinitialize (with initialize, part_000 257-264).
reinitialize(a, b, c, d, tx, ty, alpha, shadow, compositeOperation) ==
  [a |-> a, b |-> b, c |-> c, d |-> d, tx |-> tx, ty |-> ty,
   alpha |-> IF alpha.n = 0 THEN Frac(1, 1) ELSE alpha,
   shadow |-> shadow, compositeOperation |-> compositeOperation]

\* new easel.Matrix2D(), and Matrix2D.prototype.identity.
IdentityMatrix == reinitialize(1, 0, 0, 1, 0, 0, Frac(1, 1), NullProp, NullProp)

\* No matrix: a null _matrix field, an omitted _mtx argument.
NoMatrix == [null |-> TRUE]

\* Matrix2D.prototype.append.
append(m, a, b, c, d, tx, ty) ==
  [m EXCEPT !.a = a * m.a + b * m.c,
            !.b = a * m.b + b * m.d,
            !.c = c * m.a + d * m.c,
            !.d = c * m.b + d * m.d,
            !.tx = tx * m.a + ty * m.c + m.tx,
            !.ty = tx * m.b + ty * m.d + m.ty]

\* Matrix2D.prototype.prepend.
prepend(m, a, b, c, d, tx, ty) ==
  LET lin == a # 1 \/ b # 0 \/ c # 0 \/ d # 1
  IN [m EXCEPT !.a = IF lin THEN m.a * a + m.b * c ELSE m.a,
               !.b = IF lin THEN m.a * b + m.b * d ELSE m.b,
               !.c = IF lin THEN m.c * a + m.d * c ELSE m.c,
               !.d = IF lin THEN m.c * b + m.d * d ELSE m.d,
               !.tx = m.tx * a + m.ty * c + tx,
               !.ty = m.tx * b + m.ty * d + ty]

\* Matrix2D.prototype.appendTransform, for rotation % 360 = 0 and no skew
\* (cos = 1, sin = 0).
appendTransform(m, x, y, scaleX, scaleY, rotation, skewX, skewY, regX, regY) ==
  IF rotation % 360 = 0 /\ scaleX = 1 /\ scaleY = 1 /\ skewX = 0 /\ skewY = 0
  THEN [m EXCEPT !.tx = m.tx + (x - regX), !.ty = m.ty + (y - regY)]
  ELSE LET m1 == append(m, scaleX, 0, 0, scaleY, x, y)
       IN IF regX # 0 \/ regY # 0
          THEN [m1 EXCEPT !.tx = m1.tx - (regX * m1.a + regY * m1.c),
                          !.ty = m1.ty - (regX * m1.b + regY * m1.d)]
          ELSE m1

\* Matrix2D.prototype.prependTransform, for rotation % 360 = 0 and no skew.
prependTransform(m, x, y, scaleX, scaleY, rotation, skewX, skewY, regX, regY) ==
  LET m1 == IF regX # 0 \/ regY # 0
            THEN [m EXCEPT !.tx = m.tx - regX, !.ty = m.ty - regY]
            ELSE m
  IN prepend(m1, scaleX, 0, 0, scaleY, x, y)

\* Matrix2D.prototype.appendProperties: shadow || this.shadow.
appendProperties(m, alpha, shadow, compositeOperation) ==
  [m EXCEPT !.alpha = FracMul(m.alpha, alpha),
            !.shadow = IF shadow # NullProp THEN shadow ELSE m.shadow,
            !.compositeOperation =
              IF compositeOperation # NullProp THEN compositeOperation
              ELSE m.compositeOperation]

\* Matrix2D.prototype.prependProperties: this.shadow || shadow.
prependProperties(m, alpha, shadow, compositeOperation) ==
  [m EXCEPT !.alpha = FracMul(m.alpha, alpha),
            !.shadow = IF m.shadow # NullProp THEN m.shadow ELSE shadow,
            !.compositeOperation =
              IF m.compositeOperation # NullProp THEN m.compositeOperation
              ELSE compositeOperation]

\* ------------------------------------------- a Matrix2D the script holds
\* The coefficients as JavaScript numbers: Num(i) or NaN.
JSMinus(p, q) == IF p.t = "num" /\ q.t = "num" THEN Num(p.v - q.v) ELSE NaN
JSPlus(p, q) == IF p.t = "num" /\ q.t = "num" THEN Num(p.v + q.v) ELSE NaN

JSMatrix(m) ==
  [a |-> Num(m.a), b |-> Num(m.b), c |-> Num(m.c), d |-> Num(m.d), tx |-> Num(m.tx),
   ty |-> Num(m.ty), alpha |-> m.alpha, shadow |-> m.shadow,
   compositeOperation |-> m.compositeOperation]

IsNumeric(j) == \A v \in {j.a, j.b, j.c, j.d, j.tx, j.ty} : v.t = "num"

NumMatrix(j) ==
  [a |-> j.a.v, b |-> j.b.v, c |-> j.c.v, d |-> j.d.v, tx |-> j.tx.v, ty |-> j.ty.v,
   alpha |-> j.alpha, shadow |-> j.shadow, compositeOperation |-> j.compositeOperation]

\* Matrix2D.prototype.appendTransform called with the arguments args, seven
\* numbers or nine: regX and regY read as undefined when they are not
\* passed. On the early return x - regX is NaN then; past it regX || regY is
\* false, as it is for zeros.
appendTransformArgs(j, args) ==
  LET x == ArgAt(args, 0)
      y == ArgAt(args, 1)
      scaleX == ArgAt(args, 2).v
      scaleY == ArgAt(args, 3).v
      rotation == ArgAt(args, 4).v
      skewX == ArgAt(args, 5).v
      skewY == ArgAt(args, 6).v
      regX == ArgAt(args, 7)
      regY == ArgAt(args, 8)
  IN IF rotation % 360 = 0 /\ scaleX = 1 /\ scaleY = 1 /\ skewX = 0 /\ skewY = 0
     THEN [j EXCEPT !.tx = JSPlus(j.tx, JSMinus(x, regX)),
                    !.ty = JSPlus(j.ty, JSMinus(y, regY))]
     ELSE JSMatrix(appendTransform(NumMatrix(j), x.v, y.v, scaleX, scaleY, rotation, skewX,
                                   skewY, ToInteger(regX), ToInteger(regY)))

\* x / n for an n that divides x.
Quot(x, n) == IF n > 0 THEN x \div n ELSE (-x) \div (-n)

\* The determinant n of Matrix2D.prototype.invert, and whether every
\* division by it is exact.
Determinant(m) == m.a * m.d - m.b * m.c

Divides(n, x) == n # 0 /\ x % (IF n > 0 THEN n ELSE -n) = 0

ExactInverse(m) ==
  \A x \in {m.a, m.b, m.c, m.d, m.c * m.ty - m.d * m.tx, m.a * m.ty - m.b * m.tx} :
    Divides(Determinant(m), x)

\* Matrix2D.prototype.invert, where the divisions are exact.
invert_readsNewTx(m) ==
  LET n == Determinant(m)
      tx == Quot(m.c * m.ty - m.d * m.tx, n)
  IN [m EXCEPT !.a = Quot(m.d, n), !.b = Quot(-m.b, n), !.c = Quot(-m.c, n),
               !.d = Quot(m.a, n), !.tx = tx,
               !.ty = Quot(-(m.a * m.ty - m.b * tx), n)]

invert(m) ==
  LET n == Determinant(m)
  IN [m EXCEPT !.a = Quot(m.d, n), !.b = Quot(-m.b, n), !.c = Quot(-m.c, n),
               !.d = Quot(m.a, n),
               !.tx = Quot(m.c * m.ty - m.d * m.tx, n),
               !.ty = Quot(-(m.a * m.ty - m.b * m.tx), n)]

\* Matrix2D.prototype.clone: new Matrix2D(a, b, c, d, tx, ty), whose
\* initialize reads b, c, tx and ty as v || 0, and the three properties.
OrZero(v) == IF v.t = "num" THEN v ELSE Num(0)

clone(j) ==
  [j EXCEPT !.b = OrZero(j.b), !.c = OrZero(j.c), !.tx = OrZero(j.tx), !.ty = OrZero(j.ty)]

\* The script's Matrix2D M, before it is cloned.
NewM2D(m) == [M |-> JSMatrix(m), K |-> NoMatrix, prev |-> NoMatrix, log |-> <<>>]

\* ------------------------------------------------------------ Graphics
\* new easel.Command(f, params); f is the name of the context method, or
\* _setProp with the property name as its first parameter.
Command(f, params) == [f |-> f, params |-> params]

\* easel.Graphics.beginCmd, fillCmd and strokeCmd.
beginCmd == Command("beginPath", <<>>)
fillCmd == Command("fill", <<>>)
strokeCmd == Command("stroke", <<>>)

\* easel.Graphics.prototype.clear. A list of style instructions that is
\* null is the empty sequence: the arrays the code assigns are never empty.
clear(g) ==
  [g EXCEPT !._instructions = <<>>, !._oldInstructions = <<>>, !._activeInstructions = <<>>,
            !._strokeStyleInstructions = <<>>, !._strokeInstructions = <<>>,
            !._fillInstructions = <<>>, !._active = FALSE, !._dirty = FALSE]

\* new easel.Graphics(): initialize calls clear. With the fields of the
\* object come the calls recorded on it since the last clear (log), the
\* last call (op), the instructions the last draw executed (replayed), and
\* when the call before it was a draw too (again) those that one executed
\* (before).
NewGraphics ==
  clear([_instructions |-> <<>>, _oldInstructions |-> <<>>, _activeInstructions |-> <<>>,
         _strokeStyleInstructions |-> <<>>, _strokeInstructions |-> <<>>,
         _fillInstructions |-> <<>>, _active |-> FALSE, _dirty |-> FALSE,
         log |-> <<>>, op |-> "new", replayed |-> <<>>, again |-> FALSE,
         before |-> <<>>])

\* easel.Graphics.prototype._updateInstructions, with the stroke appearance
\* added whether a stroke is set or not.
_updateInstructions_styleAlways(g) ==
  [g EXCEPT !._instructions =
     g._oldInstructions \o <<beginCmd>> \o g._fillInstructions \o g._strokeInstructions
       \o g._strokeStyleInstructions
       \o g._activeInstructions
       \o (IF g._fillInstructions # <<>> THEN <<fillCmd>> ELSE <<>>)
       \o (IF g._strokeInstructions # <<>> THEN <<strokeCmd>> ELSE <<>>)]

\* easel.Graphics.prototype._updateInstructions.
_updateInstructions(g) ==
  [g EXCEPT !._instructions =
     g._oldInstructions \o <<beginCmd>> \o g._fillInstructions \o g._strokeInstructions
       \o (IF g._strokeInstructions # <<>> THEN g._strokeStyleInstructions ELSE <<>>)
       \o g._activeInstructions
       \o (IF g._fillInstructions # <<>> THEN <<fillCmd>> ELSE <<>>)
       \o (IF g._strokeInstructions # <<>> THEN <<strokeCmd>> ELSE <<>>)]

\* The instructions after if (this._dirty) { this._updateInstructions(); }.
updated(g) == IF g._dirty THEN _updateInstructions(g)._instructions ELSE g._instructions

\* easel.Graphics.prototype._newPath.
_newPath(g) ==
  [g EXCEPT !._instructions = updated(g), !._oldInstructions = updated(g),
            !._activeInstructions = <<>>, !._active = FALSE, !._dirty = FALSE]

\* if (this._active) { this._newPath(); }
flushed(g) == IF g._active THEN _newPath(g) ELSE g

\* easel.Graphics.prototype.moveTo.
moveTo(g, x, y) ==
  [g EXCEPT !._activeInstructions = Append(@, Command("moveTo", <<x, y>>))]

\* easel.Graphics.prototype.lineTo.
lineTo(g, x, y) ==
  [g EXCEPT !._dirty = TRUE, !._active = TRUE,
            !._activeInstructions = Append(@, Command("lineTo", <<x, y>>))]

\* easel.Graphics.prototype.beginFill, without the call of _newPath.
beginFill_keepsPath(g, color) ==
  [g EXCEPT !._fillInstructions =
     IF Truthy(color) THEN <<Command("_setProp", <<"fillStyle", color>>)>> ELSE <<>>]

\* easel.Graphics.prototype.beginFill; a color that is null or "" sets no
\* fill.
beginFill(g, color) ==
  [flushed(g) EXCEPT !._fillInstructions =
     IF Truthy(color) THEN <<Command("_setProp", <<"fillStyle", color>>)>> ELSE <<>>]

\* easel.Graphics.prototype.endFill.
endFill(g) == beginFill(g, NullVal)

\* easel.Graphics.prototype.setStrokeStyle(thickness), caps, joints and
\* miterLimit omitted.
setStrokeStyle(g, thickness) ==
  [flushed(g) EXCEPT !._strokeStyleInstructions =
     <<Command("_setProp", <<"lineWidth", IF thickness \in {Undefined, NullVal} THEN Str("1")
                                           ELSE thickness>>),
       Command("_setProp", <<"lineCap", Str("butt")>>),
       Command("_setProp", <<"lineJoin", Str("miter")>>),
       Command("_setProp", <<"miterLimit", Str("10")>>)>>]

\* easel.Graphics.prototype.beginStroke.
beginStroke(g, color) ==
  [flushed(g) EXCEPT !._strokeInstructions =
     IF Truthy(color) THEN <<Command("_setProp", <<"strokeStyle", color>>)>> ELSE <<>>]

\* easel.Graphics.prototype.endStroke.
endStroke(g) == beginStroke(g, NullVal)

\* easel.Graphics.prototype.draw: the Graphics afterwards; its
\* _instructions are what the loop executes on ctx.
Graphics_draw(g) == [g EXCEPT !._instructions = updated(g)]

\* ------------------------------------------------------------- Ticker
\* The static fields of easel.Ticker as Ticker.js 52-155 leaves them, with
\* the timeouts that setInterval arms: timers is the number of calls of
\* _handleTimeout that are pending. _listeners and _pauseable are null until init;
\* removeListener returns at once for null and finds nothing in an empty
\* array, so both are the empty sequence here. The statement of line 120,
\* easel.Ticker._pausedeasel.Tickers = 0, creates no counter: it evaluates
\* easel.Ticker._pausedeasel, which no statement defines, and so does every
\* later read of the counter. Times are left out. The last call on the
\* Ticker is op with the arguments args and the result ret; called lists
\* the listeners whose tick that call called, and unpaused counts the calls
\* of _tick that found the Ticker not paused.
NewTicker ==
  [_inited |-> FALSE, _listeners |-> <<>>, _pauseable |-> <<>>, _paused |-> FALSE,
   _ticks |-> 0, _interval |-> 50, timers |-> 0,
   op |-> "load", args |-> <<>>, ret |-> Undefined, called |-> <<>>, unpaused |-> 0,
   flagOf |-> [o \in {"stage", "sprite", "clock"} |-> TRUE],
   snapshot |-> <<>>, registered |-> <<>>, flags |-> <<>>]

\* The objects with a tick method that the script registers.
Listeners == {"stage", "sprite", "clock"}

\* easel.Ticker.setInterval with useInterval true: it ends in
\* setTimeout(_handleTimeout, interval), and cancels no timeout.
setInterval(t, interval) == [t EXCEPT !._interval = interval, !.timers = @ + 1]

\* easel.Ticker.setFPS.
setFPS(t, value) == setInterval(t, 1000 \div value)

\* easel.Ticker.init.
init(t) ==
  setInterval([t EXCEPT !._inited = TRUE, !._listeners = <<>>, !._pauseable = <<>>],
              t._interval)

\* easel.Ticker.removeListener.
removeListener(t, o) ==
  IF IndexOf(t._listeners, o) # -1
  THEN [t EXCEPT !._listeners = Splice(@, Num(IndexOf(t._listeners, o)), 1, <<>>),
                 !._pauseable = Splice(@, Num(IndexOf(t._listeners, o)), 1, <<>>)]
  ELSE t

\* The rest of addListener once the Ticker is inited.
addListenerInited(t, o, pauseable) ==
  [removeListener(t, o) EXCEPT
     !._pauseable = Append(@, IF pauseable.t \in {"undefined", "null"} THEN TRUE
                              ELSE pauseable.v),
     !._listeners = Append(@, o)]

\* easel.Ticker.addListener.
addListener(t, o, pauseable) ==
  addListenerInited(IF ~t._inited THEN init(t) ELSE t, o, pauseable)

\* easel.Ticker.setPaused.
setPaused(t, value) == [t EXCEPT !._paused = value]

\* easel.Ticker.getTicks: the value returned; the read of
\* easel.Ticker._pausedeasel.Tickers is a read of a property of undefined.
getTicks(t, pauseable) ==
  IF Truthy(pauseable) THEN Throw("TypeError") ELSE Num(t._ticks)

\* The loop of easel.Ticker._tick: the listeners whose tick is called, in
\* the order of the array.
RECURSIVE ticked(_, _, _, _)
ticked(listeners, pauseable, paused, i) ==
  IF i > Len(listeners) THEN <<>>
  ELSE IF paused /\ pauseable[i] THEN ticked(listeners, pauseable, paused, i + 1)
  ELSE <<listeners[i]>> \o ticked(listeners, pauseable, paused, i + 1)

\* easel.Ticker._tick: the Ticker afterwards and what it threw.
\* easel.Ticker._pausedeasel.Tickers++ at line 360 throws before the loop,
\* and so does _listeners.slice() at line 366 while _listeners is null.
Ticker_tick(t) ==
  IF ~t._inited
  THEN [t |-> [t EXCEPT !._ticks = @ + 1, !.called = <<>>], threw |-> "TypeError"]
  ELSE IF t._paused
  THEN [t |-> [t EXCEPT !._ticks = @ + 1, !.called = <<>>], threw |-> "TypeError"]
  ELSE [t |-> [t EXCEPT !._ticks = @ + 1,
                        !.called = ticked(t._listeners, t._pauseable, t._paused, 1)],
        threw |-> "none"]

\* easel.Ticker._handleTimeout: the timer is armed again after _tick
\* returns, and not when it throws.
_handleTimeout(t) ==
  [Ticker_tick(t).t EXCEPT !.timers = IF Ticker_tick(t).threw = "none" THEN @ ELSE @ - 1,
                           !.ret = IF Ticker_tick(t).threw = "none" THEN Undefined
                                   ELSE Throw(Ticker_tick(t).threw)]

\* easel.Ticker.removeAllListeners.
removeAllListeners(t) == [t EXCEPT !._listeners = <<>>, !._pauseable = <<>>]

\* listener.tick(elapsedTime): the tick of listener who calls
\* removeListener(target), addListener(target, false) or
\* removeAllListeners(), as kind says; the other listeners leave the
\* Ticker alone.
listenerTick(t, listener, who, kind, target) ==
  IF listener # who \/ kind = "none" THEN t
  ELSE IF kind = "removeListener" THEN removeListener(t, target)
  ELSE IF kind = "addListener" THEN addListener(t, target, Bool(FALSE))
  ELSE removeAllListeners(t)

\* The loop of easel.Ticker._tick (Ticker.js 365-373) from index i (from 1):
\* listeners is the copy made by slice(), while the local pauseable is the
\* array _pauseable itself (alias) until removeAllListeners replaces it,
\* and the array as it was then (old) afterwards. flags collects the p read
\* for each listener of the copy, undefined past the end of the array.
RECURSIVE tickLoop(_, _, _, _, _, _, _, _, _)
tickLoop(t, listeners, old, alias, paused, i, who, kind, target) ==
  IF i > Len(listeners) THEN t
  ELSE LET pauseable == IF alias THEN t._pauseable ELSE old
           p == IF i <= Len(pauseable) THEN Bool(pauseable[i]) ELSE Undefined
           read == [t EXCEPT !.flags = Append(@, p)]
           replaced == listeners[i] = who /\ kind = "removeAllListeners"
       IN IF paused /\ Truthy(p)
          THEN tickLoop(read, listeners, old, alias, paused, i + 1, who, kind, target)
          ELSE tickLoop(listenerTick([read EXCEPT !.called = Append(@, listeners[i])],
                                     listeners[i], who, kind, target),
                        listeners, IF alias /\ replaced THEN pauseable ELSE old,
                        alias /\ ~replaced, paused, i + 1, who, kind, target)

\* easel.Ticker._tick with a listener whose tick calls the Ticker: the
\* Ticker afterwards and what it threw.
Ticker_tickCalling(t, who, kind, target) ==
  IF t._paused
  THEN [t |-> [t EXCEPT !._ticks = @ + 1], threw |-> "TypeError"]
  ELSE [t |-> tickLoop([t EXCEPT !._ticks = @ + 1], t._listeners, <<>>, TRUE, t._paused, 1,
                       who, kind, target),
        threw |-> "none"]

\* easel.Ticker._handleTimeout, likewise.
_handleTimeoutCalling(t, who, kind, target) ==
  [Ticker_tickCalling(t, who, kind, target).t EXCEPT
     !.timers = IF Ticker_tickCalling(t, who, kind, target).threw = "none" THEN @ ELSE @ - 1,
     !.ret = IF Ticker_tickCalling(t, who, kind, target).threw = "none" THEN Undefined
             ELSE Throw(Ticker_tickCalling(t, who, kind, target).threw)]

\* ------------------------------------------------- a BitmapSequence
\* The fields of a BitmapSequence that its methods change: the playhead,
\* the window of the sequence being played (null in simple mode), and the
\* number of times the callback has been invoked.
Playhead(currentFrame, paused, advanceCount) ==
  [currentFrame |-> currentFrame, paused |-> paused, advanceCount |-> advanceCount,
   currentSequence |-> NullVal, currentStartFrame |-> NullVal,
   currentEndFrame |-> NullVal, nextSequence |-> NullVal, callbacks |-> 0]

\* new easel.BitmapSequence(spriteSheet) in simple mode (no sequence has
\* been started: currentEndFrame is null), on a sheet of totalFrames
\* frames that loops or not and has frameData or not; with the last call
\* made on it, the fields before that call, the number n of _tick calls so
\* far that found it not paused, and the number cb of times the last call
\* invoked the callback.
NewSequence(totalFrames, loop, frameData) ==
  [head |-> Playhead(-1, FALSE, 0), advanceFrequency |-> 1, advanceOffset |-> 0,
   totalFrames |-> totalFrames, loop |-> loop, frameData |-> frameData,
   op |-> "new", prev |-> Playhead(-1, FALSE, 0), n |-> 0, cb |-> 0]

\* spriteSheet.frameData of a sheet that has it: a sequence with a next
\* one, one without the third entry (it repeats), one whose third entry is
\* false (it stops), a single frame, and one without an end frame.
FrameData ==
  [walk |-> ArrayVal(<<Num(0), Num(1), Str("jump")>>),
   jump |-> ArrayVal(<<Num(1), Num(2)>>),
   land |-> ArrayVal(<<Num(2), Num(2), Bool(FALSE)>>),
   idle |-> Num(1),
   blink |-> ArrayVal(<<Num(0)>>)]

\* A callback that is invoked twice at a time.
callback_twice(h) == [h EXCEPT !.callbacks = @ + 2]

\* if (this.callback) { this.callback(this); } with a callback that counts
\* its invocations.
callback(h) == [h EXCEPT !.callbacks = @ + 1]

\* BitmapSequence.prototype._goto, taking the start frame of a sequence for
\* its end frame.
_goto_singleFrame(h, frameOrSequence) ==
  IF frameOrSequence.t = "str"
  THEN IF frameOrSequence = h.currentSequence
       THEN [h EXCEPT !.currentFrame = h.currentStartFrame.v]
       ELSE LET data == FrameData[frameOrSequence.v]
            IN IF data.t = "array"
               THEN [h EXCEPT !.currentFrame = ArgAt(data.v, 0).v,
                              !.currentStartFrame = ArgAt(data.v, 0),
                              !.currentSequence = frameOrSequence,
                              !.currentEndFrame = ArgAt(data.v, 0),
                              !.nextSequence =
                                IF ArgAt(data.v, 2) \in {Undefined, NullVal}
                                THEN frameOrSequence
                                ELSE IF ArgAt(data.v, 2) = Bool(FALSE) THEN NullVal
                                ELSE ArgAt(data.v, 2)]
               ELSE [h EXCEPT !.currentSequence = NullVal, !.nextSequence = NullVal,
                              !.currentEndFrame = data, !.currentFrame = data.v,
                              !.currentStartFrame = data]
  ELSE [h EXCEPT !.currentSequence = NullVal, !.nextSequence = NullVal,
                 !.currentEndFrame = NullVal, !.currentStartFrame = Num(0),
                 !.currentFrame = frameOrSequence.v]

\* BitmapSequence.prototype._goto: a string that is not a number is the
\* name of a sequence of frameData.
_goto(h, frameOrSequence) ==
  IF frameOrSequence.t = "str"
  THEN IF frameOrSequence = h.currentSequence
       THEN [h EXCEPT !.currentFrame = h.currentStartFrame.v]
       ELSE LET data == FrameData[frameOrSequence.v]
            IN IF data.t = "array"
               THEN [h EXCEPT !.currentFrame = ArgAt(data.v, 0).v,
                              !.currentStartFrame = ArgAt(data.v, 0),
                              !.currentSequence = frameOrSequence,
                              !.currentEndFrame =
                                IF ArgAt(data.v, 1) \in {Undefined, NullVal}
                                THEN ArgAt(data.v, 0) ELSE ArgAt(data.v, 1),
                              !.nextSequence =
                                IF ArgAt(data.v, 2) \in {Undefined, NullVal}
                                THEN frameOrSequence
                                ELSE IF ArgAt(data.v, 2) = Bool(FALSE) THEN NullVal
                                ELSE ArgAt(data.v, 2)]
               ELSE [h EXCEPT !.currentSequence = NullVal, !.nextSequence = NullVal,
                              !.currentEndFrame = data, !.currentFrame = data.v,
                              !.currentStartFrame = data]
  ELSE [h EXCEPT !.currentSequence = NullVal, !.nextSequence = NullVal,
                 !.currentEndFrame = NullVal, !.currentStartFrame = Num(0),
                 !.currentFrame = frameOrSequence.v]

\* x % f of JavaScript, f > 0: the sign is that of x.
JSRem(x, f) == IF x >= 0 THEN x % f ELSE -((-x) % f)

\* BitmapSequence.prototype._normalizeCurrentFrame, calling back at every
\* frame from the last one on.
_normalizeCurrentFrame_callsAtLast(s, h) ==
  IF h.currentEndFrame # NullVal
  THEN IF h.currentFrame >= h.currentEndFrame.v
       THEN callback(IF h.nextSequence # NullVal THEN _goto(h, h.nextSequence)
                     ELSE [h EXCEPT !.paused = TRUE, !.currentFrame = h.currentEndFrame.v])
       ELSE h
  ELSE IF h.currentFrame >= s.totalFrames - 1
       THEN callback(IF s.loop THEN [h EXCEPT !.currentFrame = 0]
                     ELSE [h EXCEPT !.currentFrame = s.totalFrames - 1, !.paused = TRUE])
       ELSE h

\* BitmapSequence.prototype._normalizeCurrentFrame: the window of a named
\* sequence when currentEndFrame is set, the frames of the sheet otherwise.
_normalizeCurrentFrame(s, h) ==
  IF h.currentEndFrame # NullVal
  THEN IF h.currentFrame > h.currentEndFrame.v
       THEN callback(IF h.nextSequence # NullVal THEN _goto(h, h.nextSequence)
                     ELSE [h EXCEPT !.paused = TRUE, !.currentFrame = h.currentEndFrame.v])
       ELSE h
  ELSE IF h.currentFrame >= s.totalFrames
       THEN callback(IF s.loop THEN [h EXCEPT !.currentFrame = 0]
                     ELSE [h EXCEPT !.currentFrame = s.totalFrames - 1, !.paused = TRUE])
       ELSE h

\* BitmapSequence.prototype.getCurrentFrameRect, which draw calls: the
\* playhead afterwards.
getCurrentFrameRect(s) == _normalizeCurrentFrame(s, s.head)

\* Whether _tick finds the sequence paused at its second test: it pauses
\* one that has sequence data and has not played yet.
pausedAtGate(s) == (s.head.currentFrame = -1 /\ s.frameData) \/ s.head.paused

\* BitmapSequence.prototype._tick: the playhead afterwards.
_tick_countsAfter(s) ==
  IF pausedAtGate(s) THEN [s.head EXCEPT !.paused = TRUE]
  ELSE IF JSRem(s.head.advanceCount + s.advanceOffset, s.advanceFrequency) = 0
  THEN _normalizeCurrentFrame(s, [s.head EXCEPT !.advanceCount = @ + 1,
                                                !.currentFrame = @ + 1])
  ELSE [s.head EXCEPT !.advanceCount = @ + 1]

_tick(s) ==
  IF pausedAtGate(s) THEN [s.head EXCEPT !.paused = TRUE]
  ELSE IF JSRem((s.head.advanceCount + 1) + s.advanceOffset, s.advanceFrequency) = 0
  THEN _normalizeCurrentFrame(s, [s.head EXCEPT !.advanceCount = @ + 1,
                                                !.currentFrame = @ + 1])
  ELSE [s.head EXCEPT !.advanceCount = @ + 1]

\* BitmapSequence.prototype.advance.
advance_gated(s) ==
  IF JSRem((s.head.advanceCount + 1) + s.advanceOffset, s.advanceFrequency) = 0
  THEN [s.head EXCEPT !.advanceCount = @ + 1, !.currentFrame = @ + 1]
  ELSE [s.head EXCEPT !.advanceCount = @ + 1]

advance(s) == [s.head EXCEPT !.currentFrame = @ + 1]

\* BitmapSequence.prototype.gotoAndPlay and gotoAndStop.
gotoAndPlay(s, frameOrSequence) == _goto([s.head EXCEPT !.paused = FALSE], frameOrSequence)

gotoAndStop(s, frameOrSequence) == _goto([s.head EXCEPT !.paused = TRUE], frameOrSequence)

\* ------------------------------------------------------------ easel.Touch
\* The touch state of a stage and of the page: whether the browser has touch
\* events ('ontouchstart' in window), the stage's properties that the code
\* names _primaryeasel and _handleeasel (no Stage has them), the values it
\* stores under them, the listeners registered for the three events, the
\* fingers on the screen, and the last call or event with the mouse handlers
\* of the stage it called.
NoTouch == -1

NewTouch(supported) ==
  [supported |-> supported,
   _primaryeasel |-> Undefined, TouchId |-> Undefined,
   _handleeasel |-> Undefined, TouchMoveListener |-> FALSE,
   starts |-> 0, ends |-> 0, moves |-> 0, moveRegistered |-> FALSE,
   fingers |-> {}, enables |-> 0,
   op |-> "idle", args |-> <<>>, calls |-> <<>>, threw |-> "none",
   down |-> NoTouch, before |-> NoTouch]

\* A touch event with the changed touches, by identifier. The browser names
\* the list changedTouches; the code reads e.changedeasel.Touches.
TouchEvent(touches) == [changedTouches |-> touches, changedeasel |-> Undefined]

\* A call of a mouse handler of the stage with a touch.
MouseCall(handler, finger) == [call |-> handler, id |-> finger]

\* easel.Touch.enable(stage), stage not null.
enable(t) ==
  IF ~t.supported THEN t
  ELSE IF t._primaryeasel.t = "undefined" THEN [t EXCEPT !.threw = "TypeError"]
  ELSE IF t._handleeasel.t = "undefined"
  THEN [t EXCEPT !.TouchId = Num(-1), !.threw = "TypeError"]
  ELSE [t EXCEPT !.TouchId = Num(-1), !.TouchMoveListener = FALSE, !.moveRegistered = FALSE,
                 !.starts = @ + 1, !.ends = @ + 1]

\* easel.Touch._findPrimaryTouch: the touch of the list whose identifier is
\* the primary one, or null.
_findPrimaryTouch(t, touches) ==
  IF \E i \in 1..Len(touches) : Num(touches[i]) = t.TouchId
  THEN Num(t.TouchId.v) ELSE NullVal

\* easel.Touch._handleTouchStart (the call of _updateMousePosition before
\* _handleMouseDown is left out).
_handleTouchStart(t, e) ==
  IF t._primaryeasel.t = "undefined" THEN [t EXCEPT !.threw = "TypeError"]
  ELSE IF t.TouchId # Num(-1) THEN t
  ELSE IF t._handleeasel.t = "undefined" THEN [t EXCEPT !.threw = "TypeError"]
  ELSE IF e.changedeasel.t = "undefined"
  THEN [t EXCEPT !.TouchMoveListener = TRUE, !.moveRegistered = TRUE,
                 !.moves = IF t.TouchMoveListener /\ t.moveRegistered THEN @ ELSE @ + 1,
                 !.threw = "TypeError"]
  ELSE [t EXCEPT !.TouchMoveListener = TRUE, !.moveRegistered = TRUE,
                 !.moves = IF t.TouchMoveListener /\ t.moveRegistered THEN @ ELSE @ + 1,
                 !.TouchId = Num(e.changedeasel.v[1]),
                 !.calls = Append(@, MouseCall("_handleMouseDown", e.changedeasel.v[1]))]

\* easel.Touch._handleTouchMove.
_handleTouchMove(t, e) ==
  IF e.changedeasel.t = "undefined" \/ t._primaryeasel.t = "undefined"
  THEN [t EXCEPT !.threw = "TypeError"]
  ELSE IF _findPrimaryTouch(t, e.changedeasel.v).t = "null" THEN t
  ELSE [t EXCEPT !.calls = Append(@, MouseCall("_handleMouseMove", t.TouchId.v))]

\* easel.Touch._handleTouchEnd.
_handleTouchEnd(t, e) ==
  IF e.changedeasel.t = "undefined" \/ t._primaryeasel.t = "undefined"
  THEN [t EXCEPT !.threw = "TypeError"]
  ELSE IF _findPrimaryTouch(t, e.changedeasel.v).t = "null" THEN t
  ELSE IF t._handleeasel.t = "undefined"
  THEN [t EXCEPT !.TouchId = Num(-1), !.threw = "TypeError",
                 !.calls = Append(@, MouseCall("_handleMouseUp", t.TouchId.v))]
  ELSE [t EXCEPT !.TouchId = Num(-1),
                 !.calls = Append(@, MouseCall("_handleMouseUp", t.TouchId.v)),
                 !.moves = IF t.TouchMoveListener /\ t.moveRegistered THEN @ - 1 ELSE @,
                 !.moveRegistered = FALSE, !.TouchMoveListener = FALSE]

\* The browser calls the k listeners that were registered for an event when
\* it arrived, one after the other; each calls the handler of its event.
RECURSIVE dispatch(_, _, _, _)
dispatch(t, type, e, k) ==
  IF k = 0 THEN t
  ELSE dispatch(IF type = "touchstart" THEN _handleTouchStart(t, e)
                ELSE IF type = "touchmove" THEN _handleTouchMove(t, e)
                ELSE _handleTouchEnd(t, e),
                type, e, k - 1)

\* The touch that the stage holds for pressed after the mouse calls: the one
\* of the last _handleMouseDown with no _handleMouseUp after it.
RECURSIVE DownAfter(_, _)
DownAfter(down, calls) ==
  IF calls = <<>> THEN down
  ELSE DownAfter(IF calls[1].call = "_handleMouseDown" THEN calls[1].id
                 ELSE IF calls[1].call = "_handleMouseUp" THEN NoTouch ELSE down,
                 Tail(calls))

\* ------------------------------------------------------ the drawing surface
\* A canvas is its size and the images drawn into it since it was last
\* cleared; each drawImage is recorded with the context state it was drawn
\* under. NoCanvas is a null cacheCanvas.
NoCanvas == [null |-> TRUE]

Canvas(n, w, h) == [kind |-> "canvas", node |-> n, w |-> w, h |-> h, ops |-> <<>>]

\* A 2D context in its default state, on a cleared canvas.
NewContext(canvas) ==
  [canvas |-> canvas,
   m |-> [a |-> 1, b |-> 0, c |-> 0, d |-> 1, tx |-> 0, ty |-> 0],
   globalAlpha |-> Frac(1, 1), globalCompositeOperation |-> "source-over",
   shadow |-> NullProp]

setTransform(ctx, a, b, c, d, tx, ty) ==
  [ctx EXCEPT !.m = [a |-> a, b |-> b, c |-> c, d |-> d, tx |-> tx, ty |-> ty]]

\* ctx.drawImage(src, dx, dy).
drawImage(ctx, src, dx, dy) ==
  [ctx EXCEPT !.canvas.ops =
     Append(@, [src |-> src, dx |-> dx, dy |-> dy, m |-> ctx.m,
                globalAlpha |-> ctx.globalAlpha,
                globalCompositeOperation |-> ctx.globalCompositeOperation,
                shadow |-> ctx.shadow])]

\* ctx.clearRect(x, y, w, h) under a transform that scales and translates:
\* a rectangle that covers the canvas empties it, one that covers a part of
\* a painted canvas is kept with the calls painted so far.
clearRect(ctx, x, y, w, h) ==
  IF /\ ctx.m.a * x + ctx.m.tx <= 0
     /\ ctx.m.d * y + ctx.m.ty <= 0
     /\ ctx.m.a * (x + w) + ctx.m.tx >= ctx.canvas.w
     /\ ctx.m.d * (y + h) + ctx.m.ty >= ctx.canvas.h
  THEN [ctx EXCEPT !.canvas.ops = <<>>]
  ELSE IF ctx.canvas.ops = <<>> THEN ctx
  ELSE [ctx EXCEPT !.canvas.ops =
          Append(@, [src |-> [kind |-> "clear", node |-> Null, w |-> w, h |-> h,
                              alpha |-> 255],
                     dx |-> x, dy |-> y, m |-> ctx.m, globalAlpha |-> Frac(1, 1),
                     globalCompositeOperation |-> "copy", shadow |-> NullProp])]

\* DisplayObject.prototype.applyShadow: shadow || easel.Shadow.identity.
applyShadow(ctx, shadow) ==
  [ctx EXCEPT !.shadow = IF shadow # NullProp THEN shadow ELSE "identity"]

\* v+0.5|0 on a coordinate: add half a pixel, drop the fraction (toward 0).
snapRound(v) ==
  LET u == v + (SubPixel \div 2)
  IN IF u >= 0 THEN (u \div SubPixel) * SubPixel ELSE -(((-u) \div SubPixel) * SubPixel)

\* ------------------------------------------------------------- the nodes
\* The image of a Bitmap: loaded or not, its size, the alpha (0..255) of its
\* pixels, and whether reading its pixels back is refused (cross-domain).
Image(n, complete, w, h, alpha, crossDomain) ==
  [kind |-> "image", node |-> n, complete |-> complete, w |-> w, h |-> h,
   alpha |-> alpha, crossDomain |-> crossDomain]

NoImage == [null |-> TRUE]

\* The fields of a node after construction. DisplayObject.prototype.initialize
\* sets this._matrix; Bitmap.prototype.initialize calls it on the Bitmap
\* (part_001 76), Container.prototype.initialize calls it with no receiver
\* (Container.js 74), so a Container keeps the prototype's _matrix = null.
NewObject(n) ==
  [visible |-> TRUE, alpha |-> Frac(1, 1), x |-> 0, y |-> 0, scaleX |-> 1, scaleY |-> 1,
   rotation |-> 0, skewX |-> 0, skewY |-> 0, regX |-> 0, regY |-> 0,
   shadow |-> NullProp, compositeOperation |-> NullProp, mouseEnabled |-> TRUE,
   snapToPixel |-> (n \in Leaves),
   cacheCanvas |-> NoCanvas, cacheOffsetX |-> 0, cacheOffsetY |-> 0,
   matrix |-> (n \in Leaves),
   onPress |-> FALSE, onMouseOver |-> FALSE,
   image |-> IF n \in Leaves
             THEN Image(n, TRUE, 2 * SubPixel, 2 * SubPixel, 255, FALSE)
             ELSE NoImage]

\* Container.prototype.isVisible and Bitmap.prototype.isVisible.
isVisible(n) ==
  IF n \in Containers
  THEN /\ obj[n].visible /\ obj[n].alpha.n > 0 /\ Len(children[n]) # 0
       /\ obj[n].scaleX # 0 /\ obj[n].scaleY # 0
  ELSE /\ obj[n].visible /\ obj[n].alpha.n > 0
       /\ obj[n].scaleX # 0 /\ obj[n].scaleY # 0
       /\ obj[n].image # NoImage /\ obj[n].image.complete

\* ------------------------------------------------------------------ draw
\* What a call leaves: the context, and the error it threw ("" if it
\* returned true).
Returned(ctx) == [ctx |-> ctx, threw |-> ""]
Thrown(ctx, error) == [ctx |-> ctx, threw |-> error]

\* DisplayObject.prototype.draw.
DisplayObject_draw(n, ctx, ignoreCache) ==
  IF ignoreCache \/ obj[n].cacheCanvas = NoCanvas
  THEN [handled |-> FALSE, ctx |-> ctx]
  ELSE [handled |-> TRUE,
        ctx |-> drawImage(ctx, obj[n].cacheCanvas, obj[n].cacheOffsetX, obj[n].cacheOffsetY)]

\* Bitmap.prototype.draw.
Bitmap_draw(n, ctx, ignoreCache) ==
  LET r == DisplayObject_draw(n, ctx, ignoreCache)
  IN IF r.handled THEN Returned(r.ctx) ELSE Returned(drawImage(ctx, obj[n].image, 0, 0))

\* Container.js 103: _mtx = _mtx || this._matrix.reinitialize(...); reading
\* reinitialize of a null _matrix is a TypeError (NoMatrix stands for it).
rootMatrix(n, mtx) ==
  IF mtx # NoMatrix THEN mtx
  ELSE IF ~obj[n].matrix THEN NoMatrix
  ELSE reinitialize(1, 0, 0, 1, 0, 0, obj[n].alpha, obj[n].shadow, obj[n].compositeOperation)

\* Container.js 112-115: the child's matrix, from the parent's.
childMatrix(child, mtx) ==
  appendProperties(
    appendTransform(
      reinitialize(mtx.a, mtx.b, mtx.c, mtx.d, mtx.tx, mtx.ty, mtx.alpha, mtx.shadow,
                   mtx.compositeOperation),
      obj[child].x, obj[child].y, obj[child].scaleX, obj[child].scaleY, obj[child].rotation,
      obj[child].skewX, obj[child].skewY, obj[child].regX, obj[child].regY),
    obj[child].alpha, obj[child].shadow, obj[child].compositeOperation)

\* Container.js 117-126: the context set up for a child that paints itself.
childContext_snapsAnyMatrix(child, ctx, mtx) ==
  IF child \in Containers /\ obj[child].cacheCanvas = NoCanvas THEN ctx
  ELSE LET snapped == /\ snapToPixelEnabled /\ obj[child].snapToPixel
           c1 == IF snapped
                 THEN setTransform(ctx, mtx.a, mtx.b, mtx.c, mtx.d,
                                   snapRound(mtx.tx), snapRound(mtx.ty))
                 ELSE setTransform(ctx, mtx.a, mtx.b, mtx.c, mtx.d, mtx.tx, mtx.ty)
           c2 == [c1 EXCEPT !.globalAlpha = mtx.alpha,
                            !.globalCompositeOperation =
                              IF mtx.compositeOperation # NullProp
                              THEN mtx.compositeOperation ELSE "source-over"]
       IN IF mtx.shadow # NullProp THEN applyShadow(c2, mtx.shadow) ELSE c2

childContext(child, ctx, mtx) ==
  IF child \in Containers /\ obj[child].cacheCanvas = NoCanvas THEN ctx
  ELSE LET snapped == /\ snapToPixelEnabled /\ obj[child].snapToPixel
                      /\ mtx.a = 1 /\ mtx.b = 0 /\ mtx.c = 0 /\ mtx.d = 1
           c1 == IF snapped
                 THEN setTransform(ctx, mtx.a, mtx.b, mtx.c, mtx.d,
                                   snapRound(mtx.tx), snapRound(mtx.ty))
                 ELSE setTransform(ctx, mtx.a, mtx.b, mtx.c, mtx.d, mtx.tx, mtx.ty)
           c2 == [c1 EXCEPT !.globalAlpha = mtx.alpha,
                            !.globalCompositeOperation =
                              IF mtx.compositeOperation # NullProp
                              THEN mtx.compositeOperation ELSE "source-over"]
       IN IF mtx.shadow # NullProp THEN applyShadow(c2, mtx.shadow) ELSE c2

\* The recursion of draw stops with a RangeError (stack overflow) when it is
\* deeper than any display list without a cycle can make it.
MaxDepth == Cardinality(Nodes)

RECURSIVE draw(_, _, _, _, _)
RECURSIVE drawChildren(_, _, _, _, _, _)

\* The element of a one-element set. Only({e : x \in {v}}) is e where x is
\* v, evaluated once: x is a local variable of the code.
Only(S) == CHOOSE x \in S : TRUE

\* Container.js 127-128, for the child's matrix m: what the pass leaves when
\* child.draw(ctx, false, mtx) has left r.
afterChildDraw(child, m, r) ==
  IF r.threw # "" THEN [ctx |-> r.ctx, threw |-> r.threw, called |-> TRUE]
  ELSE [ctx |-> IF ~(child \in Containers /\ obj[child].cacheCanvas = NoCanvas)
                   /\ m.shadow # NullProp
                THEN applyShadow(r.ctx, m.shadow) ELSE r.ctx,
        threw |-> "", called |-> TRUE]

\* Container.js 117-128, for the child's matrix m.
drawChildUnder(child, ctx, m, depth) ==
  Only({afterChildDraw(child, m, r) :
          r \in {draw(child, childContext(child, ctx, m), FALSE, m, depth + 1)}})

\* One pass of the loop of Container.js 107-129, for list[i] = child: the
\* context afterwards, the error thrown, and whether child.draw was called.
drawChild(child, ctx, mtx, depth) ==
  IF ~isVisible(child) THEN [ctx |-> ctx, threw |-> "", called |-> FALSE]
  ELSE IF ~obj[child].matrix THEN [ctx |-> ctx, threw |-> "TypeError", called |-> FALSE]
  ELSE Only({drawChildUnder(child, ctx, m, depth) : m \in {childMatrix(child, mtx)}})

\* The loop after the pass for list[i] has left r.
afterChild(list, i, mtx, depth, calls, r) ==
  IF r.threw # "" THEN [ctx |-> r.ctx, threw |-> r.threw, calls |-> calls]
  ELSE drawChildren(list, i + 1, r.ctx, mtx, depth, calls)

\* The loop of Container.js 107-129 from index i on; calls lists the children
\* whose draw has been called.
drawChildren(list, i, ctx, mtx, depth, calls) ==
  IF i >= Len(list) THEN [ctx |-> ctx, threw |-> "", calls |-> calls]
  ELSE Only({afterChild(list, i, mtx, depth,
                        IF r.called THEN Append(calls, list[i + 1]) ELSE calls, r) :
               r \in {drawChild(list[i + 1], ctx, mtx, depth)}})

\* Container.prototype.draw.
Container_draw(n, ctx, ignoreCache, mtx, depth) ==
  IF DisplayObject_draw(n, ctx, ignoreCache).handled
  THEN Returned(DisplayObject_draw(n, ctx, ignoreCache).ctx)
  ELSE IF rootMatrix(n, mtx) = NoMatrix THEN Thrown(ctx, "TypeError")
  ELSE Only({[ctx |-> d.ctx, threw |-> d.threw] :
               d \in {drawChildren(children[n], 0, ctx, rootMatrix(n, mtx), depth, <<>>)}})

\* n.draw(ctx, ignoreCache, _mtx), by the class of n.
draw(n, ctx, ignoreCache, mtx, depth) ==
  IF depth > MaxDepth THEN Thrown(ctx, "RangeError")
  ELSE IF n \in Containers THEN Container_draw(n, ctx, ignoreCache, mtx, depth)
  ELSE Bitmap_draw(n, ctx, ignoreCache)

\* ---------------------------------------------------------- pixels
\* floor(n / d), d # 0.
FloorDiv(n, d) == IF d > 0 THEN n \div d ELSE (-n) \div (-d)

\* destination alpha da (0..255) after source alpha sa is drawn over it.
SourceOver(da, sa) == Only({a + (da * (255 - a)) \div 255 : a \in {sa}})

RECURSIVE AlphaAt(_, _, _)
RECURSIVE AlphaOfOps(_, _, _, _)

\* The alpha (0..255) of image or canvas src at its point (px, py): an image
\* is uniformly painted, a canvas holds what was drawn into it. Matrices
\* have b = c = 0 here (no rotation, no skew), and every drawImage is
\* composited source-over.
AlphaAt(src, px, py) ==
  IF px < 0 \/ py < 0 \/ px >= src.w \/ py >= src.h THEN 0
  ELSE IF src.kind # "canvas" THEN src.alpha
  ELSE AlphaOfOps(src.ops, Len(src.ops), px, py)

\* The alpha that drawImage call op adds at (px, py) of its canvas: that of
\* its source at the point that the call's matrix and offset map there, times
\* globalAlpha.
AlphaOfOp(op, px, py) ==
  IF op.m.a = 0 \/ op.m.d = 0 THEN 0
  ELSE (AlphaAt(op.src, FloorDiv(px - op.m.tx, op.m.a) - op.dx,
                FloorDiv(py - op.m.ty, op.m.d) - op.dy) * op.globalAlpha.n)
       \div op.globalAlpha.d

\* The alpha at (px, py) after the first k calls of ops: a clearRect empties
\* the points of its rectangle, a drawImage paints over what is there.
AlphaOfOps(ops, k, px, py) ==
  IF k = 0 THEN 0
  ELSE IF ops[k].src.kind = "clear"
  THEN IF AlphaOfOp(ops[k], px, py) > 0 THEN 0 ELSE AlphaOfOps(ops, k - 1, px, py)
  ELSE SourceOver(AlphaOfOps(ops, k - 1, px, py), AlphaOfOp(ops[k], px, py))

\* Whether reading the canvas back is refused: a cross-domain image was drawn
\* into it, directly or through a cacheCanvas.
RECURSIVE Tainted(_)
Tainted(src) ==
  IF src.kind = "image" THEN src.crossDomain
  ELSE IF src.kind = "clear" THEN FALSE
  ELSE \E k \in 1..Len(src.ops) : Tainted(src.ops[k].src)


\* canvas.width = 0; canvas.width = 1: the probe, cleared, its context in the
\* default state.
ResetCanvas == NewContext(Canvas(Null, SubPixel, SubPixel))

\* ctx.getImageData(0, 0, 1, 1).data[3]: the alpha of the one pixel, sampled
\* at its centre.
PixelAlpha(ctx) == AlphaAt(ctx.canvas, SubPixel \div 2, SubPixel \div 2)

\* DisplayObject.prototype._testHit: "true", "false", "undefined" (the read
\* was refused and the error suppressed) or "throw".
_testHit(ctx) ==
  IF Tainted(ctx.canvas)
  THEN IF suppressCrossDomainErrors THEN "undefined" ELSE "throw"
  ELSE IF PixelAlpha(ctx) > 1 THEN "true" ELSE "false"

\* The result of hitTest once the probe ctx is drawn: the canvas is reset
\* unless _testHit throws.
afterHitDraw(ctx, t) ==
  IF t = "throw"
  THEN [ret |-> [t |-> "throw", v |-> "An error has occured."], hc |-> ctx]
  ELSE [ret |-> IF t = "undefined" THEN Undefined ELSE [t |-> "bool", v |-> (t = "true")],
        hc |-> ResetCanvas]

\* DisplayObject.prototype.hitTest(x, y) on Bitmap n, with probe context
\* hc: the result and the probe context afterwards.
DisplayObject_hitTest(n, x, y, hc) ==
  Only({afterHitDraw(r.ctx, _testHit(r.ctx)) :
          r \in {Bitmap_draw(n, setTransform(hc, 1, 0, 0, 1, -x, -y), FALSE)}})

\* ------------------------------------------------------- point queries

\* DisplayObject.prototype.getConcatenatedMatrix: the matrix it computes
\* (into mtx when one is passed, into a new Matrix2D otherwise), for a node
\* whose parent chain ends.
RECURSIVE concatenate(_, _)
concatenate(target, m) ==
  IF target = Null THEN m
  ELSE Only({concatenate(parent[target], m1) :
               m1 \in {prependProperties(
                         prependTransform(m, obj[target].x, obj[target].y,
                                          obj[target].scaleX, obj[target].scaleY,
                                          obj[target].rotation, obj[target].skewX,
                                          obj[target].skewY, obj[target].regX,
                                          obj[target].regY),
                         obj[target].alpha, obj[target].shadow,
                         obj[target].compositeOperation)}})

getConcatenatedMatrix(n) == concatenate(n, IdentityMatrix)

\* DisplayObject.prototype.localToGlobal.
localToGlobal(n, x, y) ==
  Only({[x |-> m.tx, y |-> m.ty] : m \in {append(getConcatenatedMatrix(n), 1, 0, 0, 1, x, y)}})

\* What _getObjectsUnderPoint leaves: its return value, the array arr it was
\* given (with what it pushed), the probe, and the error it threw.
Found(ret, arr, hc) == [ret |-> ret, arr |-> arr, hc |-> hc, threw |-> ""]
Failed(arr, hc, error) == [ret |-> NullVal, arr |-> arr, hc |-> hc, threw |-> error]

\* this._testHit(ctx) after n was drawn on the probe, leaving r.
afterProbeDraw(r) ==
  IF r.threw # "" THEN [hc |-> r.ctx, hit |-> "false", threw |-> r.threw]
  ELSE IF _testHit(r.ctx) = "throw"
  THEN [hc |-> r.ctx, hit |-> "false", threw |-> "cross-domain"]
  ELSE [hc |-> r.ctx, hit |-> _testHit(r.ctx), threw |-> ""]

\* n.draw(ctx) on the probe under matrix m moved by (-x, -y).
probeUnder(n, m, hc, x, y) ==
  Only({afterProbeDraw(r) :
          r \in {draw(n, [setTransform(hc, m.a, m.b, m.c, m.d, m.tx - x, m.ty - y)
                            EXCEPT !.globalAlpha = m.alpha], FALSE, NoMatrix, 0)}})

\* Container.js 373-376 and 404-408: n is drawn on the probe under its
\* concatenated matrix moved by (-x, -y), and the pixel is read. mtx is
\* this._matrix of the Container that tests: the result of
\* getConcatenatedMatrix(mtx) is dropped, so reading mtx.a of a null mtx is
\* a TypeError.
probe(n, hasMatrix, hc, x, y) ==
  IF ~hasMatrix THEN [hc |-> hc, hit |-> "false", threw |-> "TypeError"]
  ELSE Only({probeUnder(n, m, hc, x, y) : m \in {getConcatenatedMatrix(n)}})

\* mouseEvents&1 and mouseEvents&2.
Bit1(mouseEvents) == mouseEvents % 2 = 1
Bit2(mouseEvents) == (mouseEvents \div 2) % 2 = 1

\* The handler test of Container.js 369-370 and 398-399; onPress stands for
\* onPress || onClick || onDoubleClick, onMouseOver for onMouseOver ||
\* onMouseOut.
hasHandlers(n, mouseEvents) ==
  \/ Bit1(mouseEvents) /\ obj[n].onPress
  \/ Bit2(mouseEvents) /\ obj[n].onMouseOver

RECURSIVE _getObjectsUnderPoint(_, _, _, _, _, _, _)
RECURSIVE testChildren(_, _, _, _, _, _, _, _)

\* Container.js 394-395: the child Container's search (without arr) left r.
afterClaimedSearch(self, i, x, y, arr, mouseEvents, depth, r) ==
  IF r.threw # "" THEN Failed(arr, r.hc, r.threw)
  ELSE IF r.ret.t # "null" THEN Found(ArrayVal(<<self>>), arr, r.hc)
  ELSE testChildren(self, i - 1, x, y, arr, mouseEvents, r.hc, depth)

\* Container.js 397-398: the child Container's search (with arr) left r.
afterSearch(self, i, x, y, arr, mouseEvents, depth, r) ==
  IF r.threw # "" THEN Failed(r.arr, r.hc, r.threw)
  ELSE IF arr.t = "null" /\ r.ret.t # "null" THEN Found(r.ret, arr, r.hc)
  ELSE testChildren(self, i - 1, x, y, r.arr, mouseEvents, r.hc, depth)

\* Container.js 407-412: the test of leaf child left p.
afterTest(self, i, child, x, y, arr, mouseEvents, depth, p) ==
  IF p.threw # "" THEN Failed(arr, p.hc, p.threw)
  ELSE IF p.hit # "true" THEN testChildren(self, i - 1, x, y, arr, mouseEvents, p.hc, depth)
  ELSE IF hasHandlers(self, mouseEvents) THEN Found(ArrayVal(<<self>>), arr, ResetCanvas)
  ELSE IF arr.t # "null"
  THEN testChildren(self, i - 1, x, y, ArrayVal(Append(arr.v, child)), mouseEvents,
                    ResetCanvas, depth)
  ELSE Found(ArrayVal(<<child>>), arr, ResetCanvas)

\* One pass of the loop of Container.js 386-416, for children[i] = child.
testChild(self, i, child, x, y, arr, mouseEvents, hc, depth) ==
  IF ~isVisible(child) \/ ~obj[child].mouseEnabled
  THEN testChildren(self, i - 1, x, y, arr, mouseEvents, hc, depth)
  ELSE IF child \in Containers
  THEN IF hasHandlers(self, mouseEvents)
       THEN Only({afterClaimedSearch(self, i, x, y, arr, mouseEvents, depth, r) :
                    r \in {_getObjectsUnderPoint(child, x, y, NullVal, 0, hc, depth + 1)}})
       ELSE Only({afterSearch(self, i, x, y, arr, mouseEvents, depth, r) :
                    r \in {_getObjectsUnderPoint(child, x, y, arr, mouseEvents, hc,
                                                 depth + 1)}})
  ELSE IF mouseEvents = 0 \/ hasHandlers(self, mouseEvents) \/ hasHandlers(child, mouseEvents)
  THEN Only({afterTest(self, i, child, x, y, arr, mouseEvents, depth, p) :
               p \in {probe(child, obj[self].matrix, hc, x, y)}})
  ELSE testChildren(self, i - 1, x, y, arr, mouseEvents, hc, depth)

\* The loop of Container.js 386-416, from index i down to 0.
testChildren(self, i, x, y, arr, mouseEvents, hc, depth) ==
  IF i < 0 THEN Found(NullVal, arr, hc)
  ELSE testChild(self, i, children[self][i + 1], x, y, arr, mouseEvents, hc, depth)

\* Container.js 373-383: the quick check on the cacheCanvas left p.
afterCacheCheck(self, x, y, arr, mouseEvents, depth, p) ==
  IF p.threw # "" THEN Failed(arr, p.hc, p.threw)
  ELSE IF p.hit # "true" THEN Found(ArrayVal(<<>>), arr, p.hc)
  ELSE IF hasHandlers(self, mouseEvents) THEN Found(ArrayVal(<<self>>), arr, ResetCanvas)
  ELSE testChildren(self, Len(children[self]) - 1, x, y, arr, mouseEvents, ResetCanvas, depth)

\* Container.prototype._getObjectsUnderPoint(x, y, arr, mouseEvents), with
\* the probe hc; arr is NullVal when it is not passed, mouseEvents 0.
_getObjectsUnderPoint(self, x, y, arr, mouseEvents, hc, depth) ==
  IF depth > MaxDepth THEN Failed(arr, hc, "RangeError")
  ELSE IF obj[self].cacheCanvas # NoCanvas
  THEN Only({afterCacheCheck(self, x, y, arr, mouseEvents, depth, p) :
               p \in {probe(self, obj[self].matrix, hc, x, y)}})
  ELSE testChildren(self, Len(children[self]) - 1, x, y, arr, mouseEvents, hc, depth)

\* this._getObjectsUnderPoint(pt.x, pt.y, ...) for pt = localToGlobal(x, y).
searchFrom(self, x, y, arr, hc) ==
  Only({_getObjectsUnderPoint(self, pt.x, pt.y, arr, 0, hc, 0) :
          pt \in {localToGlobal(self, x, y)}})

\* Container.prototype.getObjectsUnderPoint: the value returned (or the
\* error thrown) and the probe afterwards.
getObjectsUnderPoint(self, x, y, hc) ==
  Only({[ret |-> IF r.threw # "" THEN Throw(r.threw) ELSE r.arr, hc |-> r.hc] :
          r \in {searchFrom(self, x, y, ArrayVal(<<>>), hc)}})

\* Container.prototype.getObjectUnderPoint: _getObjectsUnderPoint(...)[0] ||
\* null; [0] of null is a TypeError, [0] of an empty array is undefined.
getObjectUnderPoint(self, x, y, hc) ==
  Only({[ret |-> IF r.threw # "" THEN Throw(r.threw)
                 ELSE IF r.ret.t = "null" THEN Throw("TypeError")
                 ELSE IF r.ret.v = <<>> THEN NullVal
                 ELSE Obj(r.ret.v[1]),
         hc |-> r.hc] :
          r \in {searchFrom(self, x, y, NullVal, hc)}})

\* Container.prototype.hitTest: getObjectUnderPoint(x, y) != null.
hitTest(self, x, y, hc) ==
  Only({[ret |-> IF r.ret.t = "throw" THEN r.ret ELSE Bool(r.ret.t # "null"), hc |-> r.hc] :
          r \in {getObjectUnderPoint(self, x, y, hc)}})

\* ------------------------------------------------- calls on the display list
\* The multi forms are called with 2..MaxArgs children or indices.
MaxArgs == 2

SeqsOf(S) == UNION {[1..k -> S] : k \in 2..MaxArgs}

\* The indices a caller passes to a Container with len children: every index
\* in range, and one out of range on either side.
Indices(len) == (-1)..len

vars ==
  <<children, parent, last, obj, snapToPixelEnabled, suppressCrossDomainErrors, hitTestCanvas,
    drawing, m2d, seq, ticker, gfx, touch>>

\* The switches of the library: easel.Stage._snapToPixelEnabled and
\* easel.DisplayObject.suppressCrossDomainErrors.
settings == <<snapToPixelEnabled, suppressCrossDomainErrors>>

\* The objects the script holds apart from the display list.
apart == <<m2d, seq, ticker, gfx, touch>>

rendering == <<obj, settings, hitTestCanvas, drawing, apart>>

\* Freshly constructed nodes: children = [] (Container.js 75), parent = null.
NewTree == [children |-> [g \in Containers |-> <<>>], parent |-> [n \in Nodes |-> Null]]

Idle ==
  [op |-> "idle", self |-> Null, args |-> <<>>, ret |-> Undefined, pre |-> NewTree,
   probe |-> ResetCanvas, before |-> [n \in Nodes |-> NewObject(n)]]

\* No draw in progress.
NotDrawing == [pc |-> "idle"]

\* The nodes as constructed, no call running. easel.Stage, which holds the
\* pixel-snapping switch that Container.draw reads, sets it either way.
InitScene ==
  /\ children = NewTree.children
  /\ parent = NewTree.parent
  /\ last = Idle
  /\ obj = [n \in Nodes |-> NewObject(n)]
  /\ snapToPixelEnabled \in BOOLEAN
  /\ suppressCrossDomainErrors = FALSE
  /\ hitTestCanvas = ResetCanvas
  /\ drawing = NotDrawing
  /\ ticker = NewTicker
  /\ gfx = NewGraphics
  /\ touch = NewTouch(TRUE)

\* The scene as constructed, with an identity Matrix2D and a BitmapSequence
\* on a sheet of two frames that loops.
Init ==
  /\ InitScene
  /\ m2d = NewM2D(IdentityMatrix)
  /\ seq = NewSequence(2, TRUE, FALSE)

\* A call op(args) on Container g, made by the script while no other call is
\* running, that returns r.ret and leaves the display list r.st.
Call(op, g, args, r) ==
  /\ last = Idle
  /\ children' = r.st.children
  /\ parent' = r.st.parent
  /\ last' = [op |-> op, self |-> g, args |-> args, ret |-> r.ret, pre |-> Tree,
              probe |-> hitTestCanvas, before |-> obj]
  /\ UNCHANGED rendering

AddChild ==
  \E g \in Containers, c \in Nodes :
    Call("addChild", g, <<Obj(c)>>, addChild1(Tree, g, c))

AddChildMultiple ==
  \E g \in Containers, cs \in SeqsOf(Nodes) :
    Call("addChildMulti", g, [i \in 1..Len(cs) |-> Obj(cs[i])], addChildMulti(Tree, g, cs))

AddChildAt ==
  \E g \in Containers, c \in Nodes :
    \E index \in Indices(Len(children[g]) + 1) :
      Call("addChildAt", g, <<Obj(c), Num(index)>>, addChildAt1(Tree, g, c, Num(index)))

AddChildAtMultiple ==
  \E g \in Containers, cs \in SeqsOf(Nodes) :
    \E index \in 0..Len(children[g]) :
      LET args == [i \in 1..Len(cs) |-> Obj(cs[i])] \o <<Num(index)>>
      IN Call("addChildAtMulti", g, args, addChildAtMulti(Tree, g, args))

RemoveChild ==
  \E g \in Containers, c \in Nodes :
    Call("removeChild", g, <<Obj(c)>>, removeChild1(Tree, g, c))

RemoveChildMultiple ==
  \E g \in Containers, cs \in SeqsOf(Nodes) :
    Call("removeChildMulti", g, [i \in 1..Len(cs) |-> Obj(cs[i])], removeChildMulti(Tree, g, cs))

RemoveChildAt ==
  \E g \in Containers :
    \E index \in Indices(Len(children[g])) :
      Call("removeChildAt", g, <<Num(index)>>, removeChildAt1(Tree, g, index))

RemoveChildAtMultiple ==
  \E g \in Containers :
    \E is \in SeqsOf(Indices(Len(children[g]))) :
      Call("removeChildAtMulti", g, [i \in 1..Len(is) |-> Num(is[i])],
           removeChildAtMulti(Tree, g, is))

RemoveAllChildren ==
  \E g \in Containers :
    Call("removeAllChildren", g, <<>>, Result(removeAllChildren(Tree, g), Undefined))

\* The call returns: the caller has its result and the script goes on.
Return ==
  /\ last # Idle
  /\ last' = Idle
  /\ UNCHANGED <<children, parent, rendering>>

\* The calls with one child or index per call, removeChildAt with several
\* indices, and removeAllChildren.
Next ==
  \/ Return
  \/ AddChild
  \/ AddChildAt
  \/ RemoveChild
  \/ RemoveChildAt
  \/ RemoveChildAtMultiple
  \/ RemoveAllChildren

Spec == Init /\ [][Next]_vars

\* The same with the forms that take several children in one call.
NextVariadic ==
  \/ Next
  \/ AddChildMultiple
  \/ AddChildAtMultiple
  \/ RemoveChildMultiple

SpecVariadic == Init /\ [][NextVariadic]_vars

\* g.contains(c) and g.contains(null).
Contains ==
  \E g \in Containers, c \in Nodes \cup {Null} :
    Call("contains", g, <<IF c = Null THEN NullVal ELSE Obj(c)>>,
         Result(Tree, contains(Tree, g, c, {})))

\* The calls with one child or index per call, and contains.
NextContains ==
  \/ Next
  \/ Contains

SpecContains == Init /\ [][NextContains]_vars

\* ---------------------------------------------------- the tick pass
\* A tick callback removes at most MaxRemoved children.
MaxRemoved == 2

\* this.removeChild(c) for every c of cs.
RECURSIVE removeAllOf(_, _, _)
removeAllOf(st, g, cs) ==
  IF cs = {} THEN st
  ELSE Only({removeAllOf(removeChild1(st, g, c).st, g, cs \ {c}) :
               c \in {CHOOSE c \in cs : TRUE}})

\* child.tick(): the callback of node who removes the nodes of victims from
\* Container g0; the callbacks of the other nodes leave the display list
\* alone.
tick(st, child, who, g0, victims) ==
  IF child = who THEN removeAllOf(st, g0, victims) ELSE st

\* What a pass leaves: the display list, the calls made (method, node) in
\* call order, and the error thrown.
Ticked(st, calls, threw) == [st |-> st, calls |-> calls, threw |-> threw]

\* Container.prototype._tick, from index i down: children[i] is read from
\* the list as it is now, child._tick() is called when the child has one (a
\* Container has, a Bitmap has not), then child.tick(). Reading _tick of a
\* missing entry is a TypeError.
RECURSIVE Container_tick(_, _, _, _, _, _, _, _)
Container_tick(st, g, i, calls, who, g0, victims, depth) ==
  IF depth > MaxDepth THEN Ticked(st, calls, "RangeError")
  ELSE IF i < 0 THEN Ticked(st, calls, "")
  ELSE IF i >= Len(st.children[g]) THEN Ticked(st, calls, "TypeError")
  ELSE Only({IF r.threw # "" THEN r
             ELSE Container_tick(tick(r.st, child, who, g0, victims), g, i - 1,
                                 Append(r.calls, <<"tick", child>>), who, g0, victims, depth) :
               child \in {st.children[g][i + 1]},
               r \in {IF st.children[g][i + 1] \in Containers
                      THEN Container_tick(st, st.children[g][i + 1],
                                          Len(st.children[st.children[g][i + 1]]) - 1,
                                          Append(calls, <<"_tick", st.children[g][i + 1]>>),
                                          who, g0, victims, depth + 1)
                      ELSE Ticked(st, calls, "")}})

\* g._tick(), every node having a tick callback; that of child who removes
\* the children victims of g.
TickPass ==
  \E g \in Containers, who \in Nodes \cup {Null}, victims \in SUBSET Nodes :
    /\ drawing = NotDrawing
    /\ children[g] # <<>>
    /\ (who = Null) = (victims = {})
    /\ Cardinality(victims) <= MaxRemoved
    /\ \A c \in victims \cup ({who} \ {Null}) : parent[c] = g
    /\ \E r \in {Container_tick(Tree, g, Len(children[g]) - 1, <<>>, who, g, victims, 0)} :
         Call("_tick", g,
              <<IF who = Null THEN NullVal ELSE Obj(who), [t |-> "set", v |-> victims]>>,
              Result(r.st, IF r.threw # "" THEN Throw(r.threw)
                           ELSE [t |-> "ticked", v |-> r.calls]))

\* ------------------------------------------------------ drawing a scene
\* The script, between calls: it sets up the scene and the fields of nodes.
Quiet == drawing = NotDrawing /\ last = Idle

\* g.addChild(c), where c is not g or an ancestor of g.
AttachChild ==
  /\ Quiet
  /\ \E g \in Containers, c \in Nodes :
       LET up[k \in 0..Cardinality(Nodes)] ==
             IF k = 0 THEN g ELSE IF up[k - 1] = Null THEN Null ELSE parent[up[k - 1]]
       IN /\ \A k \in 0..Cardinality(Nodes) : up[k] # c
          /\ children' = addChild1(Tree, g, c).st.children
          /\ parent' = addChild1(Tree, g, c).st.parent
  /\ UNCHANGED <<last, rendering>>

\* g.removeChild(c).
DetachChild ==
  /\ Quiet
  /\ \E g \in Containers, c \in Nodes :
       /\ removeChild1(Tree, g, c).ret
       /\ children' = removeChild1(Tree, g, c).st.children
       /\ parent' = removeChild1(Tree, g, c).st.parent
  /\ UNCHANGED <<last, rendering>>

\* The script hides at most MaxHidden nodes at a time, and keeps at most
\* MaxCached nodes cached.
MaxHidden == 1
MaxCached == 1

\* n.visible = v.
SetVisible ==
  /\ Quiet
  /\ \E n \in Nodes, v \in BOOLEAN :
       /\ obj[n].visible # v
       /\ obj' = [obj EXCEPT ![n].visible = v]
       /\ Cardinality({m \in Nodes : ~obj'[m].visible}) <= MaxHidden
  /\ UNCHANGED <<children, parent, last, settings, hitTestCanvas, drawing, apart>>

\* The x origins of the cache regions the script asks for.
CacheOrigins == {0, SubPixel}

\* DisplayObject.prototype.cache(x, y, width, height) on node n: the fields
\* of n afterwards. When this.draw(ctx, true) throws, cacheCanvas has been
\* assigned and the offsets have not.
cache(n, x, y, width, height) ==
  Only({IF r.threw # ""
        THEN [obj[n] EXCEPT !.cacheCanvas = r.ctx.canvas]
        ELSE [obj[n] EXCEPT !.cacheCanvas = r.ctx.canvas,
                            !.cacheOffsetX = x, !.cacheOffsetY = y] :
          r \in {draw(n, setTransform(NewContext(Canvas(n, width, height)), 1, 0, 0, 1, -x, -y),
                      TRUE, NoMatrix, 0)}})

\* DisplayObject.prototype.uncache.
uncache_keepsOffset(n) ==
  [obj[n] EXCEPT !.cacheCanvas = NoCanvas]

uncache(n) ==
  [obj[n] EXCEPT !.cacheCanvas = NoCanvas, !.cacheOffsetX = 0, !.cacheOffsetY = 0]

CacheNode ==
  /\ Quiet
  /\ \E n \in Nodes, x \in CacheOrigins :
       /\ obj' = [obj EXCEPT ![n] = cache(n, x, 0, 2 * SubPixel, 2 * SubPixel)]
       /\ Cardinality({m \in Nodes : obj'[m].cacheCanvas # NoCanvas}) <= MaxCached
  /\ UNCHANGED <<children, parent, last, settings, hitTestCanvas, drawing, apart>>

UncacheNode ==
  /\ Quiet
  /\ \E n \in Nodes :
       /\ obj[n].cacheCanvas # NoCanvas
       /\ obj' = [obj EXCEPT ![n] = uncache(n)]
  /\ UNCHANGED <<children, parent, last, settings, hitTestCanvas, drawing, apart>>

\* The error that n.cache(x, y, width, height) throws, "" when it returns.
cacheError(n, x, y, width, height) ==
  draw(n, setTransform(NewContext(Canvas(n, width, height)), 1, 0, 0, 1, -x, -y),
       TRUE, NoMatrix, 0).threw

\* The context of updateCache when this.draw is called: the transform set,
\* and the canvas cleared or the compositeOperation set (a pixel is a
\* SubPixel of units).
updateContext(n, compositeOperation) ==
  Only({IF compositeOperation = NullProp
        THEN clearRect(ctx, 0, 0, obj[n].cacheCanvas.w + SubPixel,
                       obj[n].cacheCanvas.h + SubPixel)
        ELSE [ctx EXCEPT !.globalCompositeOperation = compositeOperation] :
          ctx \in {setTransform(NewContext(obj[n].cacheCanvas), 1, 0, 0, 1,
                                -obj[n].cacheOffsetX, -obj[n].cacheOffsetY)}})

\* DisplayObject.prototype.updateCache(compositeOperation) on node n: the
\* fields of n afterwards and the error thrown, "" when it returns.
updateCache_silent(n, compositeOperation) ==
  IF obj[n].cacheCanvas = NoCanvas
  THEN [node |-> obj[n], threw |-> ""]
  ELSE Only({[node |-> [obj[n] EXCEPT !.cacheCanvas = r.ctx.canvas], threw |-> r.threw] :
               r \in {draw(n, updateContext(n, compositeOperation), TRUE, NoMatrix, 0)}})

updateCache(n, compositeOperation) ==
  IF obj[n].cacheCanvas = NoCanvas
  THEN [node |-> obj[n], threw |-> "cache() must be called before updateCache()"]
  ELSE Only({[node |-> [obj[n] EXCEPT !.cacheCanvas = r.ctx.canvas], threw |-> r.threw] :
               r \in {draw(n, updateContext(n, compositeOperation), TRUE, NoMatrix, 0)}})

\* The cache regions the script asks for start left of, at, or right of the
\* origin of the node.
CacheArgs == {-SubPixel, 0, SubPixel}

\* The compositeOperation arguments of updateCache: null, or an operation.
CompositeArgs == {NullProp, "source-over"}

\* A cache surface holds the calls of at most MaxOps drawing calls.
MaxOps == 3

\* A call op(args) on the cache of node n that leaves the fields node of n
\* and throws threw.
CacheCall(op, n, args, node, threw) ==
  /\ Quiet
  /\ obj' = [obj EXCEPT ![n] = node]
  /\ last' = [op |-> op, self |-> n, args |-> args,
              ret |-> IF threw = "" THEN Undefined ELSE Throw(threw), pre |-> Tree,
              probe |-> hitTestCanvas, before |-> obj]
  /\ UNCHANGED <<children, parent, settings, hitTestCanvas, drawing, apart>>

CallCache ==
  \E n \in Nodes, x \in CacheArgs :
    /\ Cardinality({m \in Nodes : m # n /\ obj[m].cacheCanvas # NoCanvas}) < MaxCached
    /\ CacheCall("cache", n, <<x, 0, 2 * SubPixel, 2 * SubPixel>>,
                 cache(n, x, 0, 2 * SubPixel, 2 * SubPixel),
                 cacheError(n, x, 0, 2 * SubPixel, 2 * SubPixel))

CallUpdateCache ==
  \E n \in Nodes, compositeOperation \in CompositeArgs :
    \E r \in {updateCache(n, compositeOperation)} :
      /\ r.node.cacheCanvas # NoCanvas => Len(r.node.cacheCanvas.ops) <= MaxOps
      /\ CacheCall("updateCache", n, <<compositeOperation>>, r.node, r.threw)

CallUncache ==
  \E n \in Nodes : CacheCall("uncache", n, <<>>, uncache(n), "")

NextCache ==
  \/ CallCache
  \/ CallUpdateCache
  \/ CallUncache
  \/ Return

SpecCache == Init /\ [][NextCache]_vars

\* The cache calls on the nodes of a tree.
NextCacheTree ==
  \/ AttachChild
  \/ CallCache
  \/ CallUncache
  \/ Return

SpecCacheTree == Init /\ [][NextCacheTree]_vars

\* The tick passes on the containers of a tree.
NextTickPass ==
  \/ AttachChild
  \/ TickPass
  \/ Return

SpecTickPass == Init /\ [][NextTickPass]_vars

\* The draw in progress: its receiver and arguments, the snapshot list and
\* the loop index i, the context, the children whose draw was called (in
\* call order), the error thrown, and whether a child's draw changed
\* this.children meanwhile.
Drawing(pc, n, ignoreCache, given, list, i, mtx, ctx, calls, threw, mutated) ==
  [pc |-> pc, self |-> n, ignoreCache |-> ignoreCache, given |-> given, list |-> list,
   i |-> i, mtx |-> mtx, ctx |-> ctx, calls |-> calls, threw |-> threw, mutated |-> mutated]

\* The _mtx arguments a caller passes: none, or a matrix.
MtxArgs == {NoMatrix, IdentityMatrix}

\* n.draw(ctx, ignoreCache, _mtx) on a fresh canvas, up to the loop over the
\* children (Container.js 100-106), or all of it for a Bitmap.
DrawBeginWith(matrices) ==
  /\ Quiet
  /\ \E n \in Nodes, ignoreCache \in BOOLEAN, given \in matrices :
       \E ctx \in {NewContext(Canvas(Null, 2 * SubPixel, 2 * SubPixel))} :
       \E r \in {DisplayObject_draw(n, ctx, ignoreCache)} :
       \E b \in {Bitmap_draw(n, ctx, ignoreCache)} :
       \E m \in {rootMatrix(n, given)} :
          /\ n \in Leaves => given = NoMatrix
          /\ drawing' =
               IF n \in Leaves
               THEN Drawing("done", n, ignoreCache, given, <<>>, 0, given, b.ctx, <<>>,
                            b.threw, FALSE)
               ELSE IF r.handled
               THEN Drawing("done", n, ignoreCache, given, <<>>, 0, given, r.ctx, <<>>,
                            "", FALSE)
               ELSE IF m = NoMatrix
               THEN Drawing("done", n, ignoreCache, given, <<>>, 0, given, ctx, <<>>,
                            "TypeError", FALSE)
               ELSE Drawing(IF Len(children[n]) = 0 THEN "done" ELSE "loop", n, ignoreCache,
                            given, children[n], 0, m, ctx, <<>>, "", FALSE)
  /\ UNCHANGED <<children, parent, last, obj, settings, hitTestCanvas, apart>>

DrawBegin == DrawBeginWith(MtxArgs)

\* One pass of the loop (Container.js 107-129).
DrawStep ==
  /\ drawing.pc = "loop"
  /\ \E child \in {drawing.list[drawing.i + 1]} :
     \E r \in {drawChild(child, drawing.ctx, drawing.mtx, 1)} :
     \E over \in {r.threw # "" \/ drawing.i + 1 >= Len(drawing.list)} :
        drawing' = [drawing EXCEPT !.pc = IF over THEN "done" ELSE "loop",
                                   !.i = drawing.i + 1,
                                   !.ctx = r.ctx,
                                   !.calls = IF r.called THEN Append(@, child) ELSE @,
                                   !.threw = r.threw]
  /\ UNCHANGED <<children, parent, last, obj, settings, hitTestCanvas, apart>>

\* The draw of the child just painted removes a child of the container being
\* drawn, or adds a Bitmap to it, before it returns.
DrawMutates ==
  /\ drawing.pc = "loop"
  /\ drawing.i >= 1
  /\ drawing.calls # <<>>
  /\ drawing.calls[Len(drawing.calls)] = drawing.list[drawing.i]
  /\ ~drawing.mutated
  /\ \E c \in Nodes :
       \E st \in {removeChild1(Tree, drawing.self, c).st} \cup
                 {addChild1(Tree, drawing.self, l).st : l \in {c} \cap Leaves} :
         /\ st # Tree
         /\ children' = st.children
         /\ parent' = st.parent
  /\ drawing' = [drawing EXCEPT !.mutated = TRUE]
  /\ UNCHANGED <<last, obj, settings, hitTestCanvas, apart>>

\* The caller has the result of the draw.
DrawEnd ==
  /\ drawing.pc = "done"
  /\ drawing' = NotDrawing
  /\ UNCHANGED <<children, parent, last, obj, settings, hitTestCanvas, apart>>

NextDraw ==
  \/ AttachChild
  \/ DetachChild
  \/ SetVisible
  \/ CacheNode
  \/ UncacheNode
  \/ DrawBegin
  \/ DrawStep
  \/ DrawMutates
  \/ DrawEnd

SpecDraw == Init /\ [][NextDraw]_vars

\* ------------------------------------------------- pixel snapping
\* The script changes the placement of at most MaxMoved Bitmaps.
MaxMoved == 1

Moved(n) ==
  \/ obj[n].x # 0 \/ obj[n].y # 0 \/ obj[n].scaleX # 1
  \/ obj[n].snapToPixel # NewObject(n).snapToPixel

MayMove(n) == Moved(n) \/ Cardinality({m \in Leaves : Moved(m)}) < MaxMoved

\* The positions <<x, y>> given to a Bitmap, in units: on a pixel, and a
\* quarter, a half and three quarters of a pixel off it on either side.
Positions == {<<0, 0>>, <<1, 2>>, <<2, -3>>, <<-3, 1>>}

\* n.x = x; n.y = y.
SetPosition ==
  /\ Quiet
  /\ \E n \in Leaves, p \in Positions :
       /\ MayMove(n)
       /\ <<obj[n].x, obj[n].y>> # p
       /\ obj' = [obj EXCEPT ![n].x = p[1], ![n].y = p[2]]
  /\ UNCHANGED <<children, parent, last, settings, hitTestCanvas, drawing, apart>>

\* n.scaleX = 1 or 2.
SetScaleX ==
  /\ Quiet
  /\ \E n \in Leaves, v \in {1, 2} :
       /\ MayMove(n)
       /\ obj[n].scaleX # v
       /\ obj' = [obj EXCEPT ![n].scaleX = v]
  /\ UNCHANGED <<children, parent, last, settings, hitTestCanvas, drawing, apart>>

\* n.snapToPixel = v.
SetSnapToPixel ==
  /\ Quiet
  /\ \E n \in Leaves, v \in BOOLEAN :
       /\ MayMove(n)
       /\ obj[n].snapToPixel # v
       /\ obj' = [obj EXCEPT ![n].snapToPixel = v]
  /\ UNCHANGED <<children, parent, last, settings, hitTestCanvas, drawing, apart>>

\* g.addChild(c) for a Bitmap c.
AttachBitmap ==
  /\ Quiet
  /\ \E g \in Containers, c \in Leaves :
       /\ children' = addChild1(Tree, g, c).st.children
       /\ parent' = addChild1(Tree, g, c).st.parent
  /\ UNCHANGED <<last, rendering>>

\* The matrices passed as _mtx: the identity, one that shifts x by a quarter
\* pixel, one that also stretches y, and one that shears.
SnapMtxArgs ==
  {IdentityMatrix,
   [IdentityMatrix EXCEPT !.tx = 1],
   [IdentityMatrix EXCEPT !.d = 2, !.tx = 1],
   [IdentityMatrix EXCEPT !.b = 1, !.ty = 2]}

DrawBeginGiven == DrawBeginWith(SnapMtxArgs)

NextSnap ==
  \/ AttachBitmap
  \/ SetPosition
  \/ SetScaleX
  \/ SetSnapToPixel
  \/ DrawBeginGiven
  \/ DrawStep
  \/ DrawEnd

SpecSnap == Init /\ [][NextSnap]_vars

\* ------------------------------------------- alpha, shadow, compositing
\* The matrix that the draw path hands to n.draw: Container.js 103 for the
\* node a draw starts at, Container.js 112-115 below it; NoMatrix where
\* a null _matrix is read.
RECURSIVE drawPath(_)
drawPath(n) ==
  IF parent[n] = Null THEN rootMatrix(n, NoMatrix)
  ELSE IF ~obj[n].matrix THEN NoMatrix
  ELSE Only({IF m = NoMatrix THEN NoMatrix ELSE childMatrix(n, m) :
               m \in {drawPath(parent[n])}})

\* The script styles at most MaxStyled nodes.
MaxStyled == 2

Styled(n) ==
  \/ obj[n].alpha # Frac(1, 1) \/ obj[n].shadow # NullProp
  \/ obj[n].compositeOperation # NullProp

MayStyle(n) == Styled(n) \/ Cardinality({m \in Nodes : Styled(m)}) < MaxStyled

\* n.alpha = 0, 0.5 or 1.
SetAlpha ==
  /\ Quiet
  /\ \E n \in Nodes, v \in {Frac(0, 1), Frac(1, 2), Frac(1, 1)} :
       /\ MayStyle(n)
       /\ obj[n].alpha # v
       /\ obj' = [obj EXCEPT ![n].alpha = v]
  /\ UNCHANGED <<children, parent, last, settings, hitTestCanvas, drawing, apart>>

\* The Shadow objects the script has: one for each Container, one for the
\* Bitmaps.
Shadows == {"shadow1", "shadow2", "shadow3"}

ShadowOf(n) == IF n = 1 THEN "shadow1" ELSE IF n \in Containers THEN "shadow2" ELSE "shadow3"

\* n.shadow = null or a Shadow.
SetShadow ==
  /\ Quiet
  /\ \E n \in Nodes, v \in {NullProp} \cup Shadows :
       /\ MayStyle(n)
       /\ obj[n].shadow # v
       /\ v \in {NullProp, ShadowOf(n)}
       /\ obj' = [obj EXCEPT ![n].shadow = v]
  /\ UNCHANGED <<children, parent, last, settings, hitTestCanvas, drawing, apart>>

\* n.compositeOperation = null or an operation: "lighter" for Containers,
\* "xor" for Bitmaps.
SetCompositeOperation ==
  /\ Quiet
  /\ \E n \in Nodes, v \in {NullProp, "lighter", "xor"} :
       /\ MayStyle(n)
       /\ obj[n].compositeOperation # v
       /\ v \in {NullProp, IF n \in Containers THEN "lighter" ELSE "xor"}
       /\ obj' = [obj EXCEPT ![n].compositeOperation = v]
  /\ UNCHANGED <<children, parent, last, settings, hitTestCanvas, drawing, apart>>

\* n.getConcatenatedMatrix().
GetConcatenatedMatrix ==
  \E n \in Nodes :
    Call("getConcatenatedMatrix", n, <<>>,
         Result(Tree, [t |-> "matrix", v |-> getConcatenatedMatrix(n)]))

NextProps ==
  \/ AttachChild
  \/ SetAlpha
  \/ SetShadow
  \/ SetCompositeOperation
  \/ GetConcatenatedMatrix
  \/ Return

SpecProps == Init /\ [][NextProps]_vars

\* ------------------------------------------------ transforms in a chain
\* The script places at most MaxPlaced nodes.
MaxPlaced == 2

Placed(n) == obj[n].x # 0 \/ obj[n].scaleX # 1 \/ obj[n].regX # 0

\* n.x = x; n.scaleX = scaleX; n.regX = regX, for a node n that has a parent.
Place ==
  /\ Quiet
  /\ \E n \in Nodes, x \in {0, SubPixel}, scaleX \in {1, 2}, regX \in {0, SubPixel} :
       /\ parent[n] # Null
       /\ Placed(n) \/ Cardinality({m \in Nodes : Placed(m)}) < MaxPlaced
       /\ <<obj[n].x, obj[n].scaleX, obj[n].regX>> # <<x, scaleX, regX>>
       /\ obj' = [obj EXCEPT ![n].x = x, ![n].scaleX = scaleX, ![n].regX = regX]
  /\ UNCHANGED <<children, parent, last, settings, hitTestCanvas, drawing, apart>>

NextPlace ==
  \/ AttachChild
  \/ Place
  \/ GetConcatenatedMatrix
  \/ Return

SpecPlace == Init /\ [][NextPlace]_vars

\* --------------------------------------------------- querying a scene
\* n.mouseEnabled = v; the script disables at most MaxHidden nodes at a time.
SetMouseEnabled ==
  /\ Quiet
  /\ \E n \in Nodes, v \in BOOLEAN :
       /\ obj[n].mouseEnabled # v
       /\ obj' = [obj EXCEPT ![n].mouseEnabled = v]
       /\ Cardinality({m \in Nodes : ~obj'[m].mouseEnabled}) <= MaxHidden
  /\ UNCHANGED <<children, parent, last, settings, hitTestCanvas, drawing, apart>>

\* The x of the points asked about (y is 0): on the image of a Bitmap that
\* has not been moved, and beside it.
QueryPoints == {0, 3 * SubPixel}

\* A point query op(x, y) on Container g that leaves r.ret and the probe
\* r.hc.
Query(op, g, x, y, r) ==
  /\ Quiet
  /\ last' = [op |-> op, self |-> g, args |-> <<x, y>>, ret |-> r.ret, pre |-> Tree,
              probe |-> hitTestCanvas, before |-> obj]
  /\ hitTestCanvas' = r.hc
  /\ UNCHANGED <<children, parent, obj, settings, drawing, apart>>

GetObjectsUnderPoint ==
  \E g \in Containers, x \in QueryPoints :
    Query("getObjectsUnderPoint", g, x, 0, getObjectsUnderPoint(g, x, 0, hitTestCanvas))

GetObjectUnderPoint ==
  \E g \in Containers, x \in QueryPoints :
    Query("getObjectUnderPoint", g, x, 0, getObjectUnderPoint(g, x, 0, hitTestCanvas))

HitTest ==
  \E g \in Containers, x \in QueryPoints :
    Query("hitTest", g, x, 0, hitTest(g, x, 0, hitTestCanvas))

NextHit ==
  \/ AttachChild
  \/ DetachChild
  \/ SetVisible
  \/ SetMouseEnabled
  \/ CacheNode
  \/ UncacheNode
  \/ GetObjectsUnderPoint
  \/ GetObjectUnderPoint
  \/ HitTest
  \/ Return

SpecHit == Init /\ [][NextHit]_vars

\* ------------------------------------------------- reading pixels back
\* The alpha of the pixels of the images given to Bitmaps.
ImageAlphas == {0, 1, 2, 255}

\* The script gives at most MaxSwapped Bitmaps another image than the one
\* they were made with, and the probe canvas holds at most MaxStale calls
\* left by queries that threw.
MaxSwapped == 1
MaxStale == 1

\* n.image = an image of 2 x 2 pixels with the given alpha, from this
\* domain or another.
SetImage ==
  /\ Quiet
  /\ \E n \in Leaves, alpha \in ImageAlphas, crossDomain \in BOOLEAN :
       /\ obj' = [obj EXCEPT ![n].image =
                    Image(n, TRUE, 2 * SubPixel, 2 * SubPixel, alpha, crossDomain)]
       /\ obj' # obj
       /\ Cardinality({m \in Leaves : obj'[m].image # NewObject(m).image}) <= MaxSwapped
  /\ UNCHANGED <<children, parent, last, settings, hitTestCanvas, drawing, apart>>

\* easel.DisplayObject.suppressCrossDomainErrors = v.
SetSuppress ==
  /\ Quiet
  /\ suppressCrossDomainErrors' = ~suppressCrossDomainErrors
  /\ UNCHANGED <<children, parent, last, obj, snapToPixelEnabled, hitTestCanvas, drawing, apart>>

\* A point query on a scene of Bitmaps.
PixelQuery(op, n, x, r) ==
  /\ Len(r.hc.canvas.ops) <= MaxStale
  /\ Query(op, n, x, 0, r)

HitTestBitmap ==
  \E n \in Leaves, x \in QueryPoints :
    PixelQuery("hitTest", n, x, DisplayObject_hitTest(n, x, 0, hitTestCanvas))

GetObjectsUnderPixel ==
  \E g \in Containers, x \in QueryPoints :
    PixelQuery("getObjectsUnderPoint", g, x, getObjectsUnderPoint(g, x, 0, hitTestCanvas))

NextPixel ==
  \/ AttachBitmap
  \/ SetImage
  \/ SetSuppress
  \/ HitTestBitmap
  \/ GetObjectsUnderPixel
  \/ Return

SpecPixel == Init /\ [][NextPixel]_vars

\* ------------------------------------------------ calls on a Matrix2D
\* The scene, the Ticker and the Graphics, which the calls on a Matrix2D or
\* a BitmapSequence leave alone.
scene == <<children, parent, last, obj, settings, hitTestCanvas, drawing, ticker, gfx, touch>>

\* The script makes at most MaxSteps calls on a clone.
MaxSteps == 2

\* The coefficients a, b, c, d and the translations tx, ty the script
\* makes matrices of.
Coefficients == {-1, 0, 1, 2}
Translations == {<<0, 0>>, <<3, -2>>}

\* new easel.Matrix2D(a, b, c, d, tx, ty) for the matrices that invert
\* divides exactly.
InputMatrices ==
  {m \in {reinitialize(a, b, c, d, t[1], t[2], Frac(1, 1), NullProp, NullProp) :
            a \in Coefficients, b \in Coefficients, c \in Coefficients,
            d \in Coefficients, t \in Translations} : ExactInverse(m)}

InitMatrix ==
  /\ InitScene
  /\ m2d \in {NewM2D(m) : m \in InputMatrices}
  /\ seq = NewSequence(2, TRUE, FALSE)

\* A call op(args) on the clone K that leaves it k.
MatrixCall(op, args, k) ==
  /\ m2d.K # NoMatrix
  /\ Len(m2d.log) < MaxSteps
  /\ m2d' = [m2d EXCEPT !.K = k, !.prev = m2d.K,
                        !.log = Append(@, [op |-> op, args |-> args])]
  /\ UNCHANGED <<scene, seq>>

\* K = M.clone().
Clone ==
  /\ m2d.K = NoMatrix
  /\ m2d' = [m2d EXCEPT !.K = clone(m2d.M)]
  /\ UNCHANGED <<scene, seq>>

\* K.invert().
Invert ==
  /\ m2d.K # NoMatrix
  /\ IsNumeric(m2d.K)
  /\ ExactInverse(NumMatrix(m2d.K))
  /\ MatrixCall("invert", <<>>, JSMatrix(invert(NumMatrix(m2d.K))))

\* K.append(M.a, M.b, M.c, M.d, M.tx, M.ty) and K.prepend of the same.
AppendM ==
  /\ m2d.K # NoMatrix
  /\ IsNumeric(m2d.K)
  /\ \E m \in {NumMatrix(m2d.M)} :
       MatrixCall("append", <<>>,
                  JSMatrix(append(NumMatrix(m2d.K), m.a, m.b, m.c, m.d, m.tx, m.ty)))

PrependM ==
  /\ m2d.K # NoMatrix
  /\ IsNumeric(m2d.K)
  /\ \E m \in {NumMatrix(m2d.M)} :
       MatrixCall("prepend", <<>>,
                  JSMatrix(prepend(NumMatrix(m2d.K), m.a, m.b, m.c, m.d, m.tx, m.ty)))

\* K.identity().
Identity ==
  /\ m2d.K # NoMatrix
  /\ MatrixCall("identity", <<>>, JSMatrix(IdentityMatrix))

\* The arguments x, y, scaleX, scaleY, rotation, skewX, skewY of
\* appendTransform, and the regX, regY that may follow them.
TransformArgs ==
  {<<Num(x), Num(0), Num(scaleX), Num(1), Num(0), Num(0), Num(0)>> :
     x \in {0, 2}, scaleX \in {1, 2}}

RegArgs == {<<>>, <<Num(0), Num(0)>>, <<Num(1), Num(0)>>}

\* K.appendTransform(x, y, scaleX, scaleY, rotation, skewX, skewY) and
\* K.appendTransform(x, y, scaleX, scaleY, rotation, skewX, skewY, regX, regY).
AppendTransform ==
  /\ m2d.K # NoMatrix
  /\ IsNumeric(m2d.K)
  /\ \E args \in TransformArgs, reg \in RegArgs :
       MatrixCall("appendTransform", args \o reg, appendTransformArgs(m2d.K, args \o reg))

NextMatrix ==
  \/ Clone
  \/ Invert
  \/ AppendM
  \/ PrependM
  \/ Identity
  \/ AppendTransform

SpecMatrix == InitMatrix /\ [][NextMatrix]_vars

\* --------------------------------------------- calls on a BitmapSequence
\* The script lets the tick counter reach at most MaxTicks, and sets
\* advanceFrequency to at most MaxFrequency.
MaxTicks == 6
MaxFrequency == 3

Offsets == {-1, 0, 1}

InitSequence ==
  /\ InitScene
  /\ m2d = NewM2D(IdentityMatrix)
  /\ seq \in {NewSequence(totalFrames, loop, frameData) :
                totalFrames \in {2, 3}, loop \in BOOLEAN, frameData \in BOOLEAN}

\* A call op on the sequence that leaves the playhead h; the script reads
\* the count of its callback into cb and clears it.
SequenceCall(op, h) ==
  /\ seq' = [seq EXCEPT !.head = [h EXCEPT !.callbacks = 0], !.cb = h.callbacks,
                        !.prev = seq.head, !.op = op,
                        !.n = IF op = "tick" /\ ~pausedAtGate(seq) THEN @ + 1 ELSE @]
  /\ UNCHANGED <<scene, m2d>>

\* The frame driver's tick reaches the sequence (Container.js 351).
Tick ==
  /\ seq.head.advanceCount < MaxTicks
  /\ SequenceCall("tick", _tick(seq))

\* seq.advance().
Advance ==
  /\ seq.head.currentFrame < seq.totalFrames
  /\ SequenceCall("advance", advance(seq))

\* seq.gotoAndPlay(frame) and seq.gotoAndStop(frame).
GotoAndPlay ==
  \E frame \in 0..(seq.totalFrames - 1) : SequenceCall("gotoAndPlay", gotoAndPlay(seq, Num(frame)))

GotoAndStop ==
  \E frame \in 0..(seq.totalFrames - 1) : SequenceCall("gotoAndStop", gotoAndStop(seq, Num(frame)))

\* seq.advanceFrequency = f; seq.advanceOffset = o.
SetCadence ==
  /\ \E f \in 1..MaxFrequency, o \in Offsets :
       /\ <<f, o>> # <<seq.advanceFrequency, seq.advanceOffset>>
       /\ seq' = [seq EXCEPT !.advanceFrequency = f, !.advanceOffset = o, !.op = "set",
                             !.prev = seq.head, !.cb = 0]
  /\ UNCHANGED <<scene, m2d>>

NextSequence ==
  \/ Tick
  \/ Advance
  \/ GotoAndPlay
  \/ GotoAndStop
  \/ SetCadence

SpecSequence == InitSequence /\ [][NextSequence]_vars

\* ------------------------------------- playing the frames of a sheet
\* seq.gotoAndPlay(name) and seq.gotoAndStop(name) on a sheet with frameData.
PlaySequence ==
  /\ seq.frameData
  /\ \E name \in DOMAIN FrameData : SequenceCall("gotoAndPlay", gotoAndPlay(seq, Str(name)))

StopSequence ==
  /\ seq.frameData
  /\ \E name \in DOMAIN FrameData : SequenceCall("gotoAndStop", gotoAndStop(seq, Str(name)))

\* seq.draw(ctx) with no cache: getCurrentFrameRect normalizes the playhead.
DrawFrame == SequenceCall("draw", getCurrentFrameRect(seq))

NextPlayback ==
  \/ Tick
  \/ Advance
  \/ GotoAndPlay
  \/ GotoAndStop
  \/ PlaySequence
  \/ StopSequence
  \/ DrawFrame

SpecPlayback == InitSequence /\ [][NextPlayback]_vars

\* ------------------------------------------- ticks without an end
\* _tick reads advanceCount only in (advanceCount + advanceOffset) %
\* advanceFrequency, so a driver that ticks for ever is followed with the
\* counter kept modulo a common multiple of the frequencies in use.
RECURSIVE LCMUpTo(_)
LCMUpTo(k) == IF k <= 1 THEN 1 ELSE (LCMUpTo(k - 1) * k) \div GCD(LCMUpTo(k - 1), k)

CadenceCycle == LCMUpTo(MaxFrequency)

\* The frame driver's tick, every time it fires.
TickOn ==
  /\ seq' = [seq EXCEPT !.head = [_tick(seq) EXCEPT !.callbacks = 0,
                                                    !.advanceCount = @ % CadenceCycle],
                        !.cb = _tick(seq).callbacks,
                        !.prev = seq.head, !.op = "tick",
                        !.n = IF pausedAtGate(seq) THEN @ ELSE (@ + 1) % CadenceCycle]
  /\ UNCHANGED <<scene, m2d>>

NextRepeat ==
  \/ TickOn
  \/ PlaySequence
  \/ StopSequence
  \/ GotoAndPlay

\* The timer of the Ticker fires again after every interval, so a tick that
\* can happen does happen.
SpecRepeat == InitSequence /\ [][NextRepeat]_vars /\ WF_vars(TickOn)

\* ------------------------------------------------- calls on the Ticker
\* What the calls on the Ticker leave alone.
offTicker ==
  <<children, parent, last, obj, settings, hitTestCanvas, drawing, m2d, seq, gfx, touch>>

\* A call op(args) on the Ticker that leaves it as t and returns ret.
TickerCall(op, args, t, ret) ==
  /\ ticker' = [t EXCEPT !.op = op, !.args = args, !.ret = ret, !.called = <<>>,
                         !.snapshot = <<>>, !.registered = <<>>, !.flags = <<>>]
  /\ UNCHANGED offTicker

AddListener ==
  \E o \in Listeners, args \in {<<>>, <<Bool(TRUE)>>, <<Bool(FALSE)>>} :
    TickerCall("addListener", <<o>> \o args,
               [addListener(ticker, o, ArgAt(args, 0)) EXCEPT
                  !.flagOf[o] = (args = <<>> \/ args[1].v)],
               Undefined)

RemoveListener ==
  \E o \in Listeners :
    /\ IndexOf(ticker._listeners, o) # -1
    /\ TickerCall("removeListener", <<o>>, removeListener(ticker, o), Undefined)

SetPaused ==
  \E value \in BOOLEAN :
    /\ value # ticker._paused
    /\ TickerCall("setPaused", <<Bool(value)>>, setPaused(ticker, value), Undefined)

GetTicks ==
  \E args \in {<<>>, <<Bool(TRUE)>>, <<Bool(FALSE)>>} :
    TickerCall("getTicks", args, ticker, getTicks(ticker, ArgAt(args, 0)))

\* The timer fires.
HandleTimeout ==
  /\ ticker.timers > 0
  /\ ticker._ticks < MaxTicks
  /\ ticker' = [_handleTimeout(ticker) EXCEPT
                  !.op = "tick", !.args = <<Bool(ticker._paused)>>,
                  !.snapshot = <<>>, !.registered = <<>>, !.flags = <<>>,
                  !.unpaused = IF ticker._paused THEN @ ELSE @ + 1]
  /\ UNCHANGED offTicker

NextTicker ==
  \/ AddListener
  \/ RemoveListener
  \/ SetPaused
  \/ GetTicks
  \/ HandleTimeout

SpecTicker == Init /\ [][NextTicker]_vars

RemoveAllListeners ==
  /\ ticker._listeners # <<>>
  /\ TickerCall("removeAllListeners", <<>>, removeAllListeners(ticker), Undefined)

\* The kinds of call a listener's tick makes on the Ticker.
TickKinds == {"none", "removeListener", "addListener", "removeAllListeners"}

\* The timer fires; the tick of listener who calls kind on a registered
\* listener target.
HandleTimeoutCalling ==
  /\ ticker.timers > 0
  /\ ticker._ticks < MaxTicks
  /\ \E who \in Listeners, kind \in TickKinds, target \in Listeners :
       /\ IndexOf(ticker._listeners, who) # -1
       /\ IndexOf(ticker._listeners, target) # -1
       /\ kind \in {"none", "removeAllListeners"} => target = who
       /\ ticker' = [_handleTimeoutCalling(
                       [ticker EXCEPT !.called = <<>>, !.flags = <<>>,
                                      !.snapshot = ticker._listeners,
                                      !.registered = ticker._pauseable],
                       who, kind, target) EXCEPT
                       !.op = "tick", !.args = <<Bool(ticker._paused), who, kind, target>>,
                       !.unpaused = IF ticker._paused THEN @ ELSE @ + 1,
                       !.flagOf = IF kind = "addListener" /\ ~ticker._paused
                                  THEN [@ EXCEPT ![target] = FALSE] ELSE @]
  /\ UNCHANGED offTicker

NextListeners ==
  \/ AddListener
  \/ RemoveListener
  \/ RemoveAllListeners
  \/ SetPaused
  \/ HandleTimeoutCalling

SpecListeners == Init /\ [][NextListeners]_vars

\* The script leaves at most MaxTimers timeouts pending.
MaxTimers == 2

\* A call on the Ticker that arms a timeout.
TimerCall(op, args, t) ==
  /\ ticker.timers < MaxTimers
  /\ TickerCall(op, args, t, Undefined)

InitTicker == TimerCall("init", <<>>, init(ticker))

SetInterval ==
  \E interval \in {20, 50} : TimerCall("setInterval", <<Num(interval)>>, setInterval(ticker, interval))

SetFPS ==
  \E value \in {20, 25} : TimerCall("setFPS", <<Num(value)>>, setFPS(ticker, value))

\* addListener inits a Ticker that is not inited.
AddFirstListener ==
  /\ ticker._inited \/ ticker.timers < MaxTimers
  /\ AddListener

NextTimers ==
  \/ InitTicker
  \/ AddFirstListener
  \/ SetInterval
  \/ SetFPS
  \/ HandleTimeout

SpecTimers == Init /\ [][NextTimers]_vars

\* ------------------------------------------------- calls on a Graphics
\* The script records at most MaxRecorded calls between two calls of clear.
MaxRecorded == 4

\* What the calls on the Graphics leave alone.
offGraphics ==
  <<children, parent, last, obj, settings, hitTestCanvas, drawing, m2d, seq, ticker, touch>>

\* A recording call on the Graphics that leaves it as g.
Record(call, arg, g) ==
  /\ Len(gfx.log) < MaxRecorded
  /\ gfx' = [g EXCEPT !.log = Append(@, [call |-> call, arg |-> arg]), !.op = call,
                      !.again = FALSE, !.before = <<>>]
  /\ UNCHANGED offGraphics

\* g.moveTo(k, 0) and g.lineTo(k, 0) as the k-th call since the last clear.
MoveTo == Record("moveTo", Num(Len(gfx.log)), moveTo(gfx, Num(Len(gfx.log)), Num(0)))

LineTo == Record("lineTo", Num(Len(gfx.log)), lineTo(gfx, Num(Len(gfx.log)), Num(0)))

BeginFill == \E color \in {Str("red"), Str("blue")} : Record("beginFill", color, beginFill(gfx, color))

EndFill == Record("beginFill", NullVal, endFill(gfx))

SetStrokeStyle == Record("setStrokeStyle", Num(2), setStrokeStyle(gfx, Num(2)))

BeginStroke == Record("beginStroke", Str("black"), beginStroke(gfx, Str("black")))

EndStroke == Record("beginStroke", NullVal, endStroke(gfx))

Clear ==
  /\ gfx.log # <<>>
  /\ gfx' = [clear(gfx) EXCEPT !.log = <<>>, !.op = "clear", !.again = FALSE,
                                !.replayed = <<>>, !.before = <<>>]
  /\ UNCHANGED offGraphics

\* g.draw(ctx).
Replay ==
  /\ ~gfx.again
  /\ gfx' = [Graphics_draw(gfx) EXCEPT !.op = "draw",
                                       !.replayed = Graphics_draw(gfx)._instructions,
                                       !.again = (gfx.op = "draw"),
                                       !.before = IF gfx.op = "draw" THEN gfx.replayed
                                                  ELSE <<>>]
  /\ UNCHANGED offGraphics

NextGraphics ==
  \/ MoveTo
  \/ LineTo
  \/ BeginFill
  \/ EndFill
  \/ SetStrokeStyle
  \/ BeginStroke
  \/ EndStroke
  \/ Clear
  \/ Replay

SpecGraphics == Init /\ [][NextGraphics]_vars

\* ---------------------------------------------- touch events on a stage
\* The script calls easel.Touch.enable at most MaxEnables times, and at most
\* MaxFingers fingers touch the canvas, with the identifiers 0, 1, ...
MaxEnables == 1
MaxFingers == 3

Fingers == 0..(MaxFingers - 1)

\* The lists of changed touches that an event can carry: some of the
\* fingers of S, each once, in any order.
TouchLists(S) ==
  {s \in UNION {[1..k -> S] : k \in 1..Cardinality(S)} :
     \A i, j \in 1..Len(s) : s[i] = s[j] => i = j}

\* What a call or an event of easel.Touch leaves alone.
offTouch ==
  <<children, parent, last, obj, settings, hitTestCanvas, drawing, m2d, seq, ticker, gfx>>

\* A page with a stage on it, in a browser with or without touch events.
InitTouch ==
  /\ children = NewTree.children
  /\ parent = NewTree.parent
  /\ last = Idle
  /\ obj = [n \in Nodes |-> NewObject(n)]
  /\ snapToPixelEnabled = FALSE
  /\ suppressCrossDomainErrors = FALSE
  /\ hitTestCanvas = ResetCanvas
  /\ drawing = NotDrawing
  /\ ticker = NewTicker
  /\ gfx = NewGraphics
  /\ m2d = NewM2D(IdentityMatrix)
  /\ seq = NewSequence(2, TRUE, FALSE)
  /\ touch \in {NewTouch(supported) : supported \in BOOLEAN}

\* The call or event op(args) that leaves the touch state as t: the script
\* keeps the touch that was pressed before it, and the one that is after.
TouchCall(op, args, fingers, t) ==
  /\ touch' = [t EXCEPT !.op = op, !.args = args, !.fingers = fingers,
                        !.before = touch.down, !.down = DownAfter(touch.down, t.calls)]
  /\ UNCHANGED offTouch

\* The touch state when a call or an event begins.
Fresh == [touch EXCEPT !.calls = <<>>, !.threw = "none"]

\* easel.Touch.enable(stage).
Enable ==
  /\ touch.enables < MaxEnables
  /\ TouchCall("enable", <<>>, touch.fingers, [enable(Fresh) EXCEPT !.enables = @ + 1])

\* Fingers come down on the canvas: touchstart.
TouchStart ==
  \E touches \in TouchLists(Fingers \ touch.fingers) :
    TouchCall("touchstart", touches,
              touch.fingers \cup {touches[i] : i \in 1..Len(touches)},
              dispatch(Fresh, "touchstart", TouchEvent(touches), touch.starts))

\* Fingers on the screen move: touchmove.
TouchMove ==
  \E touches \in TouchLists(touch.fingers) :
    TouchCall("touchmove", touches, touch.fingers,
              dispatch(Fresh, "touchmove", TouchEvent(touches), touch.moves))

\* Fingers leave the screen: touchend.
TouchEnd ==
  \E touches \in TouchLists(touch.fingers) :
    TouchCall("touchend", touches,
              touch.fingers \ {touches[i] : i \in 1..Len(touches)},
              dispatch(Fresh, "touchend", TouchEvent(touches), touch.ends))

NextTouch ==
  \/ Enable
  \/ TouchStart
  \/ TouchMove
  \/ TouchEnd

SpecTouch == InitTouch /\ [][NextTouch]_vars

\* ------------------------------------------------ display-list properties
Occurrences(s, x) == Cardinality({i \in 1..Len(s) : s[i] = x})

Elements(s) == {s[i] : i \in 1..Len(s)}

Distinct(s) == \A i, j \in 1..Len(s) : i # j => s[i] # s[j]

\* s without the elements at the (1-based) positions K, in the order of s.
WithoutPositions(s, K) ==
  LET kept == SelectSeq([i \in 1..Len(s) |-> i], LAMBDA i : i \notin K)
  IN [j \in 1..Len(kept) |-> s[kept[j]]]

\* s without x, in the order of s.
Without(s, x) == SelectSeq(s, LAMBDA y : y # x)

\* C1: after any sequence of calls, a node occurs in G.children if and only
\* if its parent is G, it occurs there at most once, it is in the children of
\* at most one Container, and a node in no list has parent null.
C1_ParentMatchesChildren ==
  \A n \in Nodes :
    /\ \A g \in Containers : (Occurrences(children[g], n) > 0) <=> (parent[n] = g)
    /\ \A g \in Containers : Occurrences(children[g], n) <= 1
    /\ Cardinality({g \in Containers : Occurrences(children[g], n) > 0}) <= 1
    /\ (\A g \in Containers : Occurrences(children[g], n) = 0) => parent[n] = Null

\* A child was moved out of a Container that keeps other children, into a
\* Container that already had some.
C1_Witness ==
  /\ last.op = "addChildAt"
  /\ LET c == last.args[1].v
         from == last.pre.parent[c]
     IN /\ from # Null
        /\ from # last.self
        /\ Len(children[from]) >= 1
        /\ Len(children[last.self]) >= 2

\* C2: B.addChild(c) or B.addChildAt(c, i) for a child c of another Container
\* A takes c out of A (one child fewer, the others in their order), gives B
\* one child more and makes B the parent of c.
C2_ReparentingMovesChild ==
  last.op \in {"addChild", "addChildAt"} =>
    LET c == last.args[1].v
        B == last.self
    IN \A A \in Containers \ {B} :
         c \in Elements(last.pre.children[A]) =>
           /\ Len(children[A]) = Len(last.pre.children[A]) - 1
           /\ Len(children[B]) = Len(last.pre.children[B]) + 1
           /\ parent[c] = B
           /\ children[A] = Without(last.pre.children[A], c)

\* addChild took a child from between two others in another Container.
C2_Witness ==
  /\ last.op = "addChild"
  /\ \E A \in Containers \ {last.self} :
       /\ Len(last.pre.children[A]) = 3
       /\ last.pre.children[A][2] = last.args[1].v

\* C3: removeChildAt(i1, ..., ik) with distinct in-range indices removes
\* exactly the children that were at those indices, in whatever order the
\* indices are given, clears their parent, keeps the order of the others and
\* returns true.
C3_MultiIndexRemoval ==
  last.op = "removeChildAtMulti" =>
    LET g == last.self
        old == last.pre.children[g]
        is == [i \in 1..Len(last.args) |-> last.args[i].v]
        K == {is[i] + 1 : i \in 1..Len(is)}
    IN (Distinct(is) /\ \A i \in 1..Len(is) : is[i] >= 0 /\ is[i] <= Len(old) - 1) =>
         /\ children[g] = WithoutPositions(old, K)
         /\ \A k \in K : parent[old[k]] = Null
         /\ \A h \in Containers \ {g} : children[h] = last.pre.children[h]
         /\ \A n \in Nodes \ {old[k] : k \in K} : parent[n] = last.pre.parent[n]
         /\ last.ret = TRUE

\* removeChildAt(0, 2) on three children: the indices are not given in the
\* order they are processed in.
C3_Witness ==
  /\ last.op = "removeChildAtMulti"
  /\ last.args = <<Num(0), Num(2)>>
  /\ Len(last.pre.children[last.self]) = 3
  /\ children[last.self] = <<last.pre.children[last.self][2]>>

\* C4: removeChildAt with an index below 0 or at or above the number of
\* children, and removeChild of a node that is not a child, return false and
\* leave every children list and every parent as they were.
C4_FailedRemovalChangesNothing ==
  /\ (/\ last.op = "removeChildAt"
      /\ \/ last.args[1].v < 0
         \/ last.args[1].v >= Len(last.pre.children[last.self]))
       => (last.ret = FALSE /\ Tree = last.pre)
  /\ (/\ last.op = "removeChild"
      /\ last.args[1].v \notin Elements(last.pre.children[last.self]))
       => (last.ret = FALSE /\ Tree = last.pre)

\* removeChildAt(children.length) on a Container with children.
C4_Witness ==
  /\ last.op = "removeChildAt"
  /\ last.args[1].v = Len(last.pre.children[last.self])
  /\ Len(last.pre.children[last.self]) >= 2
  /\ last.ret = FALSE

\* C5: addChildAt(child1, ..., childN, index) puts child1 at index, child2 at
\* index+1, ..., childN at index+N-1, moves the children that were at index
\* and above up by N, and returns childN.
C5_MultiChildInsertion ==
  last.op = "addChildAtMulti" =>
    LET g == last.self
        old == last.pre.children[g]
        N == Len(last.args) - 1
        index == last.args[N + 1].v
        cs == [k \in 1..N |-> last.args[k].v]
    IN (Distinct(cs) /\ Elements(cs) \cap Elements(old) = {}) =>
         /\ children[g] = SubSeq(old, 1, index) \o cs \o SubSeq(old, index + 1, Len(old))
         /\ last.ret = Obj(cs[N])

\* -------------------------------------------------------------------- C6
\* Whether a is b with some entries left out (same order, none twice).
RECURSIVE IsSubSeq(_, _)
IsSubSeq(a, b) ==
  IF a = <<>> THEN TRUE
  ELSE IF b = <<>> THEN FALSE
  ELSE IF Head(a) = Head(b) THEN IsSubSeq(Tail(a), Tail(b))
  ELSE IsSubSeq(a, Tail(b))

\* A finished Container.draw that did its own painting (no cache blit) while
\* no child's draw changed the list.
PaintedChildren ==
  /\ drawing.pc = "done"
  /\ drawing.self \in Containers
  /\ ~drawing.mutated
  /\ drawing.ignoreCache \/ obj[drawing.self].cacheCanvas = NoCanvas

\* C6: Container.draw calls draw on exactly the children for which isVisible()
\* is true, once each, in the order of the children list (index 0 first), and
\* on no other child: it returns true having called draw on the visible
\* children of the list, in list order.
C6_DrawPaintsVisibleChildren ==
  PaintedChildren =>
    /\ drawing.threw = ""
    /\ drawing.calls = SelectSeq(children[drawing.self], isVisible)

\* -------------------------------------------------------------------- C7
\* C7: when a child's draw has removed or added children of the container
\* being drawn, the draw in progress still goes through the whole list it
\* started with, in order and once each: it ends without an error, having
\* visited every entry of the snapshot and called draw on entries of the
\* snapshot only, in snapshot order.
C7_DrawVisitsSnapshot ==
  (drawing.pc = "done" /\ drawing.mutated) =>
    /\ drawing.threw = ""
    /\ drawing.i = Len(drawing.list)
    /\ IsSubSeq(drawing.calls, drawing.list)

\* -------------------------------------------------------------------- C8
\* Whether the painting of Bitmap n covers the point (x, y) of the outermost
\* coordinate space: n drawn under its concatenated matrix leaves alpha there.
Covers(n, x, y) ==
  LET m == getConcatenatedMatrix(n)
      r == draw(n, [setTransform(ResetCanvas, m.a, m.b, m.c, m.d, m.tx - x, m.ty - y)
                      EXCEPT !.globalAlpha = m.alpha], FALSE, NoMatrix, 0)
  IN PixelAlpha(r.ctx) > 0

\* The visible, mouse-enabled leaves below g that cover (x, y), topmost
\* first: the children of g from the last to the first, the leaves of a
\* child Container in its place.
RECURSIVE LeavesUnder(_, _, _, _)
LeavesUnder(g, i, x, y) ==
  IF i < 0 THEN <<>>
  ELSE LET c == children[g][i + 1]
       IN (IF ~isVisible(c) \/ ~obj[c].mouseEnabled THEN <<>>
           ELSE IF c \in Containers THEN LeavesUnder(c, Len(children[c]) - 1, x, y)
           ELSE IF Covers(c, x, y) THEN <<c>>
           ELSE <<>>) \o LeavesUnder(g, i - 1, x, y)

\* C8: getObjectsUnderPoint(x, y) returns the array of the visible,
\* mouse-enabled leaves that cover the point, topmost first (children in
\* reverse list order, the hits of a nested Container in its place), each
\* once.
C8_AllObjectsUnderPoint ==
  last.op = "getObjectsUnderPoint" =>
    /\ last.ret.t = "array"
    /\ LET pt == localToGlobal(last.self, last.args[1], last.args[2])
       IN last.ret.v = LeavesUnder(last.self, Len(children[last.self]) - 1, pt.x, pt.y)

\* -------------------------------------------------------------------- C9
\* C9: getObjectUnderPoint(x, y) returns element 0 of what
\* getObjectsUnderPoint(x, y) returns in the same state, and null, without
\* an error, when that array is empty; hitTest(x, y) is then false (and true
\* when there is an element 0).
C9_FirstObjectUnderPoint ==
  LET all == getObjectsUnderPoint(last.self, last.args[1], last.args[2], last.probe).ret
  IN /\ last.op = "getObjectUnderPoint" =>
          /\ last.ret.t # "throw"
          /\ all.t = "array"
          /\ IF all.v = <<>> THEN last.ret.t = "null" ELSE last.ret = Obj(all.v[1])
     /\ last.op = "hitTest" =>
          /\ last.ret.t = "bool"
          /\ all.t = "array"
          /\ last.ret.v = (all.v # <<>>)

\* ------------------------------------------------------------------- C10
\* The drawImage calls the finished draw made on its canvas.
Painted == drawing.ctx.canvas.ops

\* C10: a draw of a node with a cache and ignoreCache false makes exactly one
\* drawImage call, of the cacheCanvas at (_cacheOffsetX, _cacheOffsetY), calls
\* no child's draw and returns true; any other draw returns true having done
\* the painting of its class (a Bitmap draws its image at 0, 0, a Container
\* calls draw on its visible children) without drawing its own cacheCanvas.
C10_DrawUsesCache ==
  (drawing.pc = "done" /\ ~drawing.mutated) =>
    IF ~drawing.ignoreCache /\ obj[drawing.self].cacheCanvas # NoCanvas
    THEN /\ drawing.threw = ""
         /\ drawing.calls = <<>>
         /\ Len(Painted) = 1
         /\ Painted[1].src = obj[drawing.self].cacheCanvas
         /\ Painted[1].dx = obj[drawing.self].cacheOffsetX
         /\ Painted[1].dy = obj[drawing.self].cacheOffsetY
    ELSE /\ drawing.threw = ""
         /\ \A k \in 1..Len(Painted) : Painted[k].src # obj[drawing.self].cacheCanvas
         /\ drawing.self \in Leaves =>
              /\ Len(Painted) = 1
              /\ Painted[1].src = obj[drawing.self].image
              /\ Painted[1].dx = 0 /\ Painted[1].dy = 0
         /\ drawing.self \in Containers =>
              drawing.calls = SelectSeq(children[drawing.self], isVisible)

\* C11: updateCache() on a node that has no active cache throws an error,
\* and leaves the cache surface, the offset and every other field of every
\* node, the display list and the probe canvas as they were.
C11_UpdateCacheNeedsCache ==
  (last.op = "updateCache" /\ last.before[last.self].cacheCanvas = NoCanvas) =>
    /\ last.ret.t = "throw"
    /\ last.ret.v = "cache() must be called before updateCache()"
    /\ obj = last.before
    /\ Tree = last.pre
    /\ hitTestCanvas = last.probe

\* updateCache() was called on a node without a cache while another node
\* had one.
C11_Witness ==
  /\ last.op = "updateCache"
  /\ last.before[last.self].cacheCanvas = NoCanvas
  /\ last.ret.t = "throw"
  /\ \E m \in Nodes : obj[m].cacheCanvas # NoCanvas

\* C12: after uncache() the node has no cache surface and its blit offset
\* is (0, 0), whatever cache and updateCache calls came before; it is as it
\* was constructed, and draw(ctx) blits no cache surface: a Bitmap paints
\* its image at (0, 0).
C12_UncacheRestoresLiveDraw ==
  last.op = "uncache" =>
    LET n == last.self
        r == draw(n, NewContext(Canvas(Null, 2 * SubPixel, 2 * SubPixel)), FALSE, NoMatrix, 0)
    IN /\ obj[n].cacheCanvas = NoCanvas
       /\ obj[n].cacheOffsetX = 0
       /\ obj[n].cacheOffsetY = 0
       /\ obj[n] = NewObject(n)
       /\ \A k \in 1..Len(r.ctx.canvas.ops) : r.ctx.canvas.ops[k].src.kind # "canvas"
       /\ n \in Leaves =>
            /\ r.threw = ""
            /\ Len(r.ctx.canvas.ops) = 1
            /\ r.ctx.canvas.ops[1].src = obj[n].image
            /\ r.ctx.canvas.ops[1].dx = 0
            /\ r.ctx.canvas.ops[1].dy = 0

\* uncache() was called on a Bitmap whose cache, with an offset, had been
\* drawn into more than once.
C12_Witness ==
  /\ last.op = "uncache"
  /\ last.self \in Leaves
  /\ last.before[last.self].cacheCanvas # NoCanvas
  /\ last.before[last.self].cacheOffsetX # 0
  /\ Len(last.before[last.self].cacheCanvas.ops) >= 2

\* The composed matrix of child c of the Container being drawn meets the
\* conditions of pixel snapping.
SnapApplies(c) ==
  LET m == childMatrix(c, drawing.mtx)
  IN /\ snapToPixelEnabled
     /\ obj[c].snapToPixel
     /\ m.a = 1 /\ m.b = 0 /\ m.c = 0 /\ m.d = 1

\* C13: a child is painted with its translation rounded to whole pixels
\* only when snapping is enabled stage-wide, the child has snapToPixel set
\* and its composed matrix has a = 1, b = 0, c = 0, d = 1; in every other
\* case the context receives the composed tx and ty unrounded.
C13_SnapOnlyUnscaled ==
  drawing.pc # "idle" =>
    \A k \in 1..Len(drawing.ctx.canvas.ops) :
      LET op == drawing.ctx.canvas.ops[k]
          c == op.src.node
          m == childMatrix(c, drawing.mtx)
      IN (op.src.kind = "image" /\ c \in Leaves /\ drawing.self \in Containers) =>
           /\ <<op.m.a, op.m.b, op.m.c, op.m.d>> = <<m.a, m.b, m.c, m.d>>
           /\ SnapApplies(c) =>
                /\ op.m.tx = snapRound(m.tx) /\ op.m.ty = snapRound(m.ty)
                /\ op.m.tx % SubPixel = 0 /\ op.m.ty % SubPixel = 0
           /\ ~SnapApplies(c) => op.m.tx = m.tx /\ op.m.ty = m.ty

\* One draw painted a Bitmap snapped off its composed translation, and
\* another Bitmap, stretched, a fraction of a pixel off.
C13_Witness ==
  /\ drawing.pc = "done"
  /\ snapToPixelEnabled
  /\ \E k \in 1..Len(drawing.ctx.canvas.ops) :
       LET op == drawing.ctx.canvas.ops[k]
       IN /\ op.src.kind = "image"
          /\ SnapApplies(op.src.node)
          /\ op.m.tx # childMatrix(op.src.node, drawing.mtx).tx
  /\ \E k \in 1..Len(drawing.ctx.canvas.ops) :
       LET op == drawing.ctx.canvas.ops[k]
       IN /\ op.src.kind = "image"
          /\ obj[op.src.node].snapToPixel
          /\ ~SnapApplies(op.src.node)
          /\ op.m.tx % SubPixel # 0

\* The alpha of the pixel that n.hitTest(x, 0) probes: what n paints at the
\* point, read from a clean probe.
ProbedAlpha(n, x) ==
  PixelAlpha(Bitmap_draw(n, setTransform(ResetCanvas, 1, 0, 0, 1, -x, 0), FALSE).ctx)

\* C14: the hit test of a Bitmap on a clean probe reports a hit exactly
\* when the alpha of the probed pixel is not zero: true for 1..255, false
\* for 0.
C14_HitIffAlphaNonZero ==
  (/\ last.op = "hitTest" /\ last.self \in Leaves
   /\ last.probe = ResetCanvas /\ last.ret.t = "bool") =>
    last.ret.v = (ProbedAlpha(last.self, last.args[1]) # 0)

\* C15: when the pixel read-back fails (the node painted a cross-domain
\* image), the error reaches the caller of hitTest or getObjectsUnderPoint
\* if suppressCrossDomainErrors is false; if it is true no error is thrown,
\* hitTest gives a falsy result and the list of getObjectsUnderPoint has
\* not the node.
C15_ReadBackFailure ==
  /\ (/\ last.op = "hitTest" /\ last.self \in Leaves
      /\ obj[last.self].image.crossDomain) =>
        IF suppressCrossDomainErrors
        THEN last.ret.t = "undefined" \/ (last.ret.t = "bool" /\ ~last.ret.v)
        ELSE last.ret.t = "throw"
  /\ (/\ last.op = "getObjectsUnderPoint"
      /\ \E c \in Elements(children[last.self]) \cap Leaves : obj[c].image.crossDomain) =>
        IF suppressCrossDomainErrors
        THEN /\ last.ret.t = "array"
             /\ \A c \in Elements(last.ret.v) : c \in Leaves => ~obj[c].image.crossDomain
        ELSE last.ret.t = "throw"

\* The product of the alpha values from node n up to its root.
RECURSIVE ChainAlpha(_)
ChainAlpha(n) ==
  IF parent[n] = Null THEN obj[n].alpha ELSE FracMul(ChainAlpha(parent[n]), obj[n].alpha)

\* The shadow, and the compositeOperation, of the nearest node from n
\* upwards that has one; NullProp if none has.
RECURSIVE ChainShadow(_)
ChainShadow(n) ==
  IF obj[n].shadow # NullProp \/ parent[n] = Null THEN obj[n].shadow
  ELSE ChainShadow(parent[n])

RECURSIVE ChainComposite(_)
ChainComposite(n) ==
  IF obj[n].compositeOperation # NullProp \/ parent[n] = Null THEN obj[n].compositeOperation
  ELSE ChainComposite(parent[n])

\* C16: the accumulated alpha of a node is the product of the alphas from
\* the root to it, and its accumulated shadow and compositeOperation are
\* those of the nearest node, from itself upwards, that has one (null if
\* none has); getConcatenatedMatrix returns these three values, and the
\* draw path hands the same three to the node.
C16_AccumulatedProperties ==
  (last.op = "getConcatenatedMatrix" /\ parent[last.self] # Null) =>
    LET n == last.self
        g == last.ret.v
        d == drawPath(n)
    IN /\ g.alpha = ChainAlpha(n)
       /\ g.shadow = ChainShadow(n)
       /\ g.compositeOperation = ChainComposite(n)
       /\ d # NoMatrix
       /\ d.alpha = g.alpha
       /\ d.shadow = g.shadow
       /\ d.compositeOperation = g.compositeOperation

IsIdentity(j) ==
  /\ j.a = Num(1) /\ j.b = Num(0) /\ j.c = Num(0) /\ j.d = Num(1)
  /\ j.tx = Num(0) /\ j.ty = Num(0)

Coeffs(j) == <<j.a, j.b, j.c, j.d, j.tx, j.ty>>

\* C17: appendTransform(0, 0, 1, 1, 0, 0, 0), with these seven arguments
\* and no registration point, leaves an identity matrix the identity:
\* a = d = 1, b = c = tx = ty = 0.
C17_NoOpTransform ==
  (/\ m2d.log # <<>>
   /\ m2d.log[Len(m2d.log)] =
        [op |-> "appendTransform",
         args |-> <<Num(0), Num(0), Num(1), Num(1), Num(0), Num(0), Num(0)>>]
   /\ IsIdentity(m2d.prev)) =>
    IsIdentity(m2d.K)

\* C18: for a matrix M whose inverse is exact, two invert() calls on a
\* clone of M give back the six coefficients of M, and the inverse appended
\* or prepended to M is the identity.
C18_InvertRoundTrip ==
  LET I == [op |-> "invert", args |-> <<>>]
  IN /\ m2d.log = <<I, I>> => Coeffs(m2d.K) = Coeffs(m2d.M)
     /\ m2d.log = <<I, [op |-> "append", args |-> <<>>]>> => IsIdentity(m2d.K)
     /\ m2d.log = <<I, [op |-> "prepend", args |-> <<>>]>> => IsIdentity(m2d.K)

\* A matrix that shears, scales and translates was inverted twice.
C18_Witness ==
  /\ m2d.log = <<[op |-> "invert", args |-> <<>>], [op |-> "invert", args |-> <<>>]>>
  /\ m2d.M.b # Num(0) /\ m2d.M.c # Num(0) /\ m2d.M.a = Num(2)
  /\ m2d.M.tx # Num(0)
  /\ Determinant(NumMatrix(m2d.M)) = -1

\* The last call was a _tick that found the sequence not paused.
TickedUnpaused ==
  /\ seq.op = "tick"
  /\ ~(seq.prev.paused \/ (seq.prev.currentFrame = -1 /\ seq.frameData))

\* The playhead after one advance step from h: the next frame, or the
\* first one or a stop at the last one past the end of the sheet.
Stepped(h) ==
  IF h.currentFrame + 1 < seq.totalFrames THEN [h EXCEPT !.currentFrame = @ + 1]
  ELSE IF seq.loop THEN [h EXCEPT !.currentFrame = 0]
  ELSE [h EXCEPT !.currentFrame = seq.totalFrames - 1, !.paused = TRUE]

\* C19: the n-th _tick of a sequence that is not paused, n counted from 1,
\* advances currentFrame if and only if (n + advanceOffset) mod
\* advanceFrequency = 0, and otherwise changes only the tick counter; with
\* frequency 2 and offset 0 that is every second tick, and no odd one. To
\* advance is to take the next frame, or past the last frame of the sheet
\* the first one (a sheet that loops) or a stop at the last.
C19_TickCadence ==
  TickedUnpaused =>
    LET due == (seq.n + seq.advanceOffset) % seq.advanceFrequency = 0
        counted == [seq.prev EXCEPT !.advanceCount = @ + 1]
    IN /\ due => seq.head = Stepped(counted)
       /\ ~due => seq.head = counted
       /\ (seq.advanceFrequency = 2 /\ seq.advanceOffset = 0) =>
            IF seq.n % 2 = 0 THEN seq.head = Stepped(counted)
            ELSE seq.head.currentFrame = seq.prev.currentFrame

\* The fourth tick of a sequence with frequency 2 and offset 0 moved the
\* playhead, which the third had not.
C19_Witness ==
  /\ TickedUnpaused
  /\ seq.advanceFrequency = 2 /\ seq.advanceOffset = 0
  /\ seq.n = 4
  /\ seq.head.currentFrame # seq.prev.currentFrame

\* C20 as stated: advance() increments currentFrame only when (counter +
\* advanceOffset) mod advanceFrequency = 0, and otherwise only increments
\* the counter.
C20_AdvanceGated ==
  seq.op = "advance" =>
    IF (seq.head.advanceCount + seq.advanceOffset) % seq.advanceFrequency = 0
    THEN seq.head.currentFrame = seq.prev.currentFrame + 1
    ELSE /\ seq.head.currentFrame = seq.prev.currentFrame
         /\ seq.head.advanceCount = seq.prev.advanceCount + 1

\* C20, amended: advance() increments currentFrame by one on every call,
\* whatever the counter, advanceOffset and advanceFrequency are, and
\* changes neither the counter nor paused; only _tick applies the gate.
C20_AdvanceUnconditional ==
  seq.op = "advance" =>
    seq.head = [seq.prev EXCEPT !.currentFrame = @ + 1]

\* advance() was called when the gate of _tick was closed.
C20_Witness ==
  /\ seq.op = "advance"
  /\ seq.advanceFrequency = 2 /\ seq.advanceOffset = 0
  /\ seq.prev.advanceCount = 2
  /\ seq.head.currentFrame = seq.prev.currentFrame + 1

\* The frame that the last call, a _tick or a draw, handed to
\* _normalizeCurrentFrame, or -1 when it did not normalize: _tick normalizes
\* after the step it takes when the sequence is not paused and the tick is
\* due, draw normalizes the frame it finds.
NormalizedFrame ==
  IF seq.op = "draw" THEN seq.prev.currentFrame
  ELSE IF TickedUnpaused /\ (seq.n + seq.advanceOffset) % seq.advanceFrequency = 0
  THEN seq.prev.currentFrame + 1
  ELSE -1

WindowOf(name) ==
  LET data == FrameData[name]
  IN IF data.t # "array" THEN [start |-> data, end |-> data, next |-> NullVal]
     ELSE [start |-> data.v[1],
           end |-> IF Len(data.v) >= 2 THEN data.v[2] ELSE data.v[1],
           next |-> IF Len(data.v) < 3 THEN Str(name)
                    ELSE IF data.v[3] = Bool(FALSE) THEN NullVal ELSE data.v[3]]

NotPauseable(t) ==
  LET kept == SelectSeq([i \in 1..Len(t._listeners) |-> i], LAMBDA i : ~t._pauseable[i])
  IN [j \in 1..Len(kept) |-> t._listeners[kept[j]]]

\* C23: a tick of the Ticker that finds it not paused calls the tick of
\* every registered listener once, in registration order; one that finds it
\* paused calls exactly the listeners registered with pauseable false, and
\* none of those registered with pauseable true or without the argument.
C23_ListenersTicked ==
  ticker.op = "tick" =>
    ticker.called = IF ticker.args[1].v THEN NotPauseable(ticker) ELSE ticker._listeners

\* C24: getTicks(false) and getTicks() return the number of ticks that
\* found the Ticker not paused, and getTicks(true) the number of all ticks.
C24_GetTicks ==
  ticker.op = "getTicks" =>
    ticker.ret = IF Truthy(ArgAt(ticker.args, 0)) THEN Num(ticker._ticks)
                 ELSE Num(ticker.unpaused)

\* The instructions that set the stroke appearance to the thickness given
\* and to the defaults of the other three properties.
Appearance(thickness) ==
  <<Command("_setProp", <<"lineWidth", thickness>>),
    Command("_setProp", <<"lineCap", Str("butt")>>),
    Command("_setProp", <<"lineJoin", Str("miter")>>),
    Command("_setProp", <<"miterLimit", Str("10")>>)>>

\* The segment of a subpath recorded with the fill, stroke and stroke
\* appearance given (null: not set); alone says that the appearance is
\* replayed also when no stroke is set.
Segment(fill, stroke, style, path, alone) ==
  <<beginCmd>>
    \o (IF fill # NullVal THEN <<Command("_setProp", <<"fillStyle", fill>>)>> ELSE <<>>)
    \o (IF stroke # NullVal THEN <<Command("_setProp", <<"strokeStyle", stroke>>)>> ELSE <<>>)
    \o (IF style # NullVal /\ (alone \/ stroke # NullVal) THEN Appearance(style) ELSE <<>>)
    \o path
    \o (IF fill # NullVal THEN <<fillCmd>> ELSE <<>>)
    \o (IF stroke # NullVal THEN <<strokeCmd>> ELSE <<>>)

\* Whether a recorded call is a path instruction, and the instruction.
IsPath(e) == e.call \in {"moveTo", "lineTo"}

PathCommand(e) == Command(e.call, <<e.arg, Num(0)>>)

\* Whether a run of path instructions draws: a moveTo only places the pen.
Draws(path) == \E j \in 1..Len(path) : path[j].f # "moveTo"

\* The segments of the subpaths recorded by log from its i-th call on, in
\* the order recorded, given the styles in effect and the path instructions
\* pending before that call: a style call ends a subpath that draws, and a
\* pending run that does not draw has no segment yet.
RECURSIVE Segments(_, _, _, _, _, _, _)
Segments(log, i, fill, stroke, style, path, alone) ==
  IF i > Len(log)
  THEN IF Draws(path) THEN Segment(fill, stroke, style, path, alone) ELSE <<>>
  ELSE IF IsPath(log[i])
  THEN Segments(log, i + 1, fill, stroke, style, Append(path, PathCommand(log[i])), alone)
  ELSE (IF Draws(path) THEN Segment(fill, stroke, style, path, alone) ELSE <<>>)
         \o Segments(log, i + 1,
                     IF log[i].call = "beginFill" THEN log[i].arg ELSE fill,
                     IF log[i].call = "beginStroke" THEN log[i].arg ELSE stroke,
                     IF log[i].call = "setStrokeStyle" THEN log[i].arg ELSE style,
                     IF Draws(path) THEN <<>> ELSE path, alone)

Position(i) ==
  IF \E p \in 1..Len(gfx.replayed) : gfx.replayed[p] = PathCommand(gfx.log[i])
  THEN CHOOSE p \in 1..Len(gfx.replayed) : gfx.replayed[p] = PathCommand(gfx.log[i])
  ELSE 0

\* The value that the segment around position p of the list replayed sets
\* the property name to before p, or null.
SegmentStyle(p, name) ==
  LET from == CHOOSE j \in 1..p :
                /\ gfx.replayed[j] = beginCmd
                /\ \A k \in (j + 1)..p : gfx.replayed[k] # beginCmd
      sets == {j \in from..p : /\ gfx.replayed[j].f = "_setProp"
                               /\ gfx.replayed[j].params[1] = name}
  IN IF sets = {} THEN NullVal ELSE gfx.replayed[CHOOSE j \in sets : TRUE].params[2]

\* The argument of the last call of the style method call before log[i],
\* or null.
StyleAt(i, call) ==
  LET calls == {j \in 1..(i - 1) : gfx.log[j].call = call}
  IN IF calls = {} THEN NullVal
     ELSE gfx.log[CHOOSE j \in calls : \A k \in calls : k <= j].arg

\* The path instruction of log[i] is replayed in a segment with the fill
\* and stroke that were in effect when it was recorded.
KeepsStyles(i) ==
  /\ Position(i) # 0
  /\ SegmentStyle(Position(i), "fillStyle") = StyleAt(i, "beginFill")
  /\ SegmentStyle(Position(i), "strokeStyle") = StyleAt(i, "beginStroke")

SameSegment(p, q) ==
  \A j \in (IF p < q THEN p + 1 ELSE q + 1)..(IF p < q THEN q ELSE p) :
    gfx.replayed[j] # beginCmd

RECURSIVE Up(_, _)
Up(n, k) == IF n = Null \/ k = 0 THEN n ELSE Up(parent[n], k - 1)

\* Following parent references terminates from every node.
ParentsTerminate == \A n \in Nodes : Up(n, Cardinality(Nodes)) = Null

\* C27: in a tree in which following parent references terminates,
\* g.contains(c) returns, and returns true if and only if c is g or g is
\* reached by walking up the parent references of c; it returns false for
\* null and for a node without a parent other than g.
C27_Contains ==
  (last.op = "contains" /\ ParentsTerminate) =>
    /\ last.ret \in {Bool(TRUE), Bool(FALSE)}
    /\ last.args[1] = NullVal => last.ret = Bool(FALSE)
    /\ last.args[1] # NullVal =>
         /\ last.ret = Bool(\E k \in 0..Cardinality(Nodes) : Up(last.args[1].v, k) = last.self)
         /\ (parent[last.args[1].v] = Null /\ last.args[1].v # last.self) =>
              last.ret = Bool(FALSE)

\* contains returned true for a node two levels below the container.
C27_Witness ==
  /\ last.op = "contains" /\ ParentsTerminate
  /\ last.args[1] # NullVal
  /\ last.ret = Bool(TRUE)
  /\ Up(last.args[1].v, 2) = last.self

\* The matrix m after append(scaleX, 0, 0, scaleY, x, y) and a translation
\* of the local origin by (-regX, -regY) in the resulting space.
AppendedAbout(m, x, y, scaleX, scaleY, regX, regY) ==
  [a |-> scaleX * m.a, b |-> scaleX * m.b, c |-> scaleY * m.c, d |-> scaleY * m.d,
   tx |-> m.tx + (x * m.a + y * m.c) - (regX * scaleX * m.a + regY * scaleY * m.c),
   ty |-> m.ty + (x * m.b + y * m.d) - (regX * scaleX * m.b + regY * scaleY * m.d)]

\* C28: with rotation 0 and no skew, appendTransform(x, y, scaleX, scaleY,
\* 0, 0, 0, regX, regY) on any matrix gives the six coefficients of
\* append(scaleX, 0, 0, scaleY, x, y) followed by the translation of the
\* local origin by (-regX, -regY) mapped through the linear part, also when
\* scaleX and scaleY are 1.
C28_AppendTransformIsAppend ==
  (/\ m2d.log # <<>>
   /\ m2d.log[Len(m2d.log)].op = "appendTransform"
   /\ Len(m2d.log[Len(m2d.log)].args) = 9) =>
    LET args == m2d.log[Len(m2d.log)].args
        m == AppendedAbout(NumMatrix(m2d.prev), args[1].v, args[2].v, args[3].v, args[4].v,
                           args[8].v, args[9].v)
    IN Coeffs(m2d.K) = <<Num(m.a), Num(m.b), Num(m.c), Num(m.d), Num(m.tx), Num(m.ty)>>

\* The node at the top of the parent chain of n.
RootOf(n) ==
  CHOOSE m \in Nodes : parent[m] = Null /\ \E k \in 0..Cardinality(Nodes) : Up(n, k) = m

\* C29: below a root container with the identity transform, the matrix (a,
\* b, c, d, tx, ty) under which Container.draw paints a descendant is that
\* of the descendant's getConcatenatedMatrix(), whatever the translations,
\* scales and registration points along the chain are.
C29_DrawMatrixIsConcatenated ==
  (/\ last.op = "getConcatenatedMatrix"
   /\ parent[last.self] # Null
   /\ ParentsTerminate
   /\ ~Placed(RootOf(last.self))) =>
    /\ drawPath(last.self) # NoMatrix
    /\ Coeffs(drawPath(last.self)) = Coeffs(last.ret.v)

\* What n.draw(ctx, true) paints on a surface of the size of the cache of
\* n, under the identity transform: the live drawing of n's content.
LiveDrawing(n) ==
  draw(n, NewContext(Canvas(n, obj[n].cacheCanvas.w, obj[n].cacheCanvas.h)), TRUE, NoMatrix, 0)

\* C30: cache(x, y, width, height) returns for a node of any class, a
\* Container with children included, and leaves (x, y) as the blit offset and
\* a cache surface that holds the calls of the node's live drawing, each
\* under its transform translated by (-x, -y): a Bitmap's image is painted
\* at local (0, 0) under the translation (-x, -y).
C30_CachePaintsContent ==
  last.op = "cache" =>
    LET n == last.self
        x == last.args[1]
        y == last.args[2]
        painted == obj[n].cacheCanvas.ops
        live == LiveDrawing(n)
    IN /\ last.ret.t = "undefined"
       /\ obj[n].cacheOffsetX = x
       /\ obj[n].cacheOffsetY = y
       /\ live.threw = ""
       /\ Len(painted) = Len(live.ctx.canvas.ops)
       /\ \A k \in 1..Len(painted) :
            painted[k] = [live.ctx.canvas.ops[k] EXCEPT !.m.tx = @ - x, !.m.ty = @ - y]
       /\ n \in Leaves =>
            /\ Len(painted) = 1
            /\ painted[1].src = obj[n].image
            /\ painted[1].dx = 0 /\ painted[1].dy = 0
            /\ painted[1].m = [a |-> 1, b |-> 0, c |-> 0, d |-> 1, tx |-> -x, ty |-> -y]

\* The playhead is within its frames: not past currentEndFrame when a
\* sequence window is set, below the frame count of the sheet otherwise.
InRange(h) ==
  IF h.currentEndFrame # NullVal THEN h.currentFrame <= h.currentEndFrame.v
  ELSE h.currentFrame < seq.totalFrames

\* C31: when advance(), a _tick that steps, gotoAndPlay or gotoAndStop has
\* returned, currentFrame is normalized: it does not exceed currentEndFrame
\* in named-sequence mode and is below the number of frames in simple mode.
C31_FrameNormalized ==
  (\/ seq.op \in {"advance", "gotoAndPlay", "gotoAndStop"}
   \/ seq.op = "tick" /\ NormalizedFrame # -1) =>
    InRange(seq.head)

\* C32: when hitTest or getObjectsUnderPoint has ended, with a hit, a miss
\* or an error, the shared probe is reset (no painted call is left on it and
\* its context is in the default state), and a Bitmap's hitTest gives what
\* it gives on a clean probe: nothing left by an earlier test takes part in
\* the decision.
C32_ProbeReset ==
  last.op \in {"hitTest", "getObjectsUnderPoint", "getObjectUnderPoint"} =>
    /\ hitTestCanvas = ResetCanvas
    /\ (last.op = "hitTest" /\ last.self \in Leaves) =>
         last.ret = DisplayObject_hitTest(last.self, last.args[1], 0, ResetCanvas).ret

\* floor(v + 0.5), in units of a SubPixel-th of a pixel.
RoundHalfUp(v) == FloorDiv(v + (SubPixel \div 2), SubPixel) * SubPixel

\* C33: a child that is painted snapped receives the translation
\* floor(tx + 0.5), floor(ty + 0.5) of its composed matrix: the nearest whole
\* pixel, halves up, for negative coordinates as for positive ones.
C33_SnapRoundsHalfUp ==
  drawing.pc # "idle" =>
    \A k \in 1..Len(drawing.ctx.canvas.ops) :
      LET op == drawing.ctx.canvas.ops[k]
          c == op.src.node
          m == childMatrix(c, drawing.mtx)
      IN (/\ op.src.kind = "image" /\ c \in Leaves /\ drawing.self \in Containers
          /\ SnapApplies(c)) =>
           /\ op.m.tx = RoundHalfUp(m.tx)
           /\ op.m.ty = RoundHalfUp(m.ty)

\* C34: every node, a Container as well as a Bitmap, holds a Matrix2D of its
\* own in _matrix from its construction on, and draw(ctx) on a Container that
\* is as it was constructed, at the top of a display list, ends without an
\* error.
C34_OwnMatrix ==
  /\ \A n \in Nodes : obj[n].matrix
  /\ \A g \in Containers :
       (obj[g] = NewObject(g) /\ parent[g] = Null) =>
         draw(g, NewContext(Canvas(Null, 2 * SubPixel, 2 * SubPixel)), FALSE, NoMatrix, 0).threw = ""

\* C35: whatever addChild, addChildAt, removeChild and removeChildAt calls
\* were made, no node is its own ancestor: from every node the walk of the
\* parent references reaches a node without a parent.
C35_ParentsAcyclic ==
  /\ \A n \in Nodes : \A k \in 1..Cardinality(Nodes) : Up(n, k) # n
  /\ ParentsTerminate

\* The positions of the call of method on node c among the calls of the pass.
CallsOf(method, c) ==
  {j \in 1..Len(last.ret.v) : last.ret.v[j] = <<method, c>>}

\* C36: a pass of Container._tick ends without an error, and every child
\* that was in the list when the pass started has had its tick callback
\* invoked exactly once (and, for a Container, its _tick exactly once,
\* before), the last child of the list first, also when a callback removed
\* children of the container during the pass.
C36_TickPass ==
  last.op = "_tick" =>
    LET list == last.pre.children[last.self]
    IN /\ last.ret.t = "ticked"
       /\ \A k \in 1..Len(list) :
            /\ Cardinality(CallsOf("tick", list[k])) = 1
            /\ list[k] \in Containers =>
                 /\ Cardinality(CallsOf("_tick", list[k])) = 1
                 /\ \A a \in CallsOf("_tick", list[k]), b \in CallsOf("tick", list[k]) : a < b
       /\ \A k \in 1..Len(list), j \in 1..Len(list) :
            k < j => \A a \in CallsOf("tick", list[k]), b \in CallsOf("tick", list[j]) : b < a

\* C37: a listener is in the list of the Ticker at most once, _listeners
\* and _pauseable have the same length and the flag at each index is the
\* one its listener was registered with, and in a tick every listener of
\* the list taken at the start of the tick is tested against the flag it
\* had then, whatever the listeners called before it did to the list.
C37_FlagsAligned ==
  /\ \A i \in 1..Len(ticker._listeners), j \in 1..Len(ticker._listeners) :
       ticker._listeners[i] = ticker._listeners[j] => i = j
  /\ Len(ticker._pauseable) = Len(ticker._listeners)
  /\ \A i \in 1..Len(ticker._listeners) :
       ticker._pauseable[i] = ticker.flagOf[ticker._listeners[i]]
  /\ (ticker.op = "tick" /\ ticker.ret = Undefined) =>
       /\ Len(ticker.flags) = Len(ticker.snapshot)
       /\ \A k \in 1..Len(ticker.flags) : ticker.flags[k] = Bool(ticker.registered[k])

\* C38: whatever init, addListener, setInterval and setFPS calls were made,
\* at most one call of _handleTimeout is pending, so that one tick is
\* broadcast per interval; setInterval and setFPS on a Ticker that has one
\* pending leave one pending, at the new interval.
C38_OneTimerChain ==
  /\ ticker.timers <= 1
  /\ ticker.op = "setInterval" => ticker._interval = ticker.args[1].v
  /\ ticker.op = "setFPS" => ticker._interval * ticker.args[1].v = 1000

\* The sequences of frameData that name no sequence after them, and the
\* playhead playing one of them at every tick.
SelfLooping == {name \in DOMAIN FrameData : WindowOf(name).next = Str(name)}

InLoop(h, frequency, name) ==
  /\ h.currentSequence.t = "str"
  /\ h.currentSequence.v = name
  /\ h.nextSequence.t = "str"
  /\ h.nextSequence.v = name
  /\ h.currentStartFrame = WindowOf(name).start
  /\ h.currentEndFrame = WindowOf(name).end
  /\ h.currentFrame >= WindowOf(name).start.v
  /\ h.currentFrame <= WindowOf(name).end.v
  /\ ~h.paused
  /\ frequency = 1

\* A tick of a playhead that plays a self-looping sequence leaves it
\* playing that sequence, on the next frame of the window or, from the last
\* one, on the first, with the callback invoked once for the wrap and not
\* otherwise.
LoopStep ==
  \A name \in SelfLooping :
    (seq.op = "tick" /\ InLoop(seq.prev, seq.advanceFrequency, name)) =>
      /\ InLoop(seq.head, seq.advanceFrequency, name)
      /\ seq.head.currentFrame =
           IF seq.prev.currentFrame = WindowOf(name).end.v
           THEN WindowOf(name).start.v ELSE seq.prev.currentFrame + 1
      /\ seq.cb = IF seq.prev.currentFrame = WindowOf(name).end.v THEN 1 ELSE 0

\* C39: a BitmapSequence playing a named sequence whose next-sequence entry
\* is absent, ticked again and again with advanceFrequency 1, never pauses,
\* has currentFrame within [currentStartFrame, currentEndFrame] after each
\* tick, invokes the callback exactly once per wrap, and shows every frame
\* of the window again and again (until the script leaves the sequence).
C39_LoopsForever ==
  /\ []LoopStep
  /\ \A name \in SelfLooping :
       \A f \in (WindowOf(name).start.v)..(WindowOf(name).end.v) :
         InLoop(seq.head, seq.advanceFrequency, name) ~>
           (~InLoop(seq.head, seq.advanceFrequency, name) \/ seq.head.currentFrame = f)

\* A tick on the last frame of "jump", which names nothing after it, has
\* wrapped to its first frame with one callback, still playing.
C39_Witness ==
  /\ seq.op = "tick"
  /\ InLoop(seq.prev, seq.advanceFrequency, "jump")
  /\ seq.prev.currentFrame = 2
  /\ InLoop(seq.head, seq.advanceFrequency, "jump")
  /\ seq.head.currentFrame = 1
  /\ seq.cb = 1

\* Whether the mouse calls of an event continue the calls before it, when
\* the touch down was pressed: a _handleMouseDown only with none pressed, a
\* _handleMouseUp or _handleMouseMove only with the touch that is pressed.
RECURSIVE Alternates(_, _)
Alternates(down, calls) ==
  IF calls = <<>> THEN TRUE
  ELSE IF calls[1].call = "_handleMouseDown"
  THEN down = NoTouch /\ Alternates(calls[1].id, Tail(calls))
  ELSE IF calls[1].call = "_handleMouseUp"
  THEN down # NoTouch /\ calls[1].id = down /\ Alternates(NoTouch, Tail(calls))
  ELSE down # NoTouch /\ calls[1].id = down /\ Alternates(down, Tail(calls))

\* The mouse calls that an event with the changed touches makes on a stage
\* that tracks the touch down (NoTouch: none).
Mapped(type, touches, down) ==
  IF type = "touchstart"
  THEN IF down = NoTouch THEN <<MouseCall("_handleMouseDown", touches[1])>> ELSE <<>>
  ELSE IF \E i \in 1..Len(touches) : touches[i] = down
  THEN <<MouseCall(IF type = "touchmove" THEN "_handleMouseMove" ELSE "_handleMouseUp", down)>>
  ELSE <<>>

====
